---- MODULE Spec2Model ----
(***************************************************************************)
(* A model of the frontend utilities (src/src/lib/utils.ts) and of the     *)
(* content pipeline (src/newsroom.js, src/unnamed/part_000).               *)
(*                                                                         *)
(* Text is a sequence of lexemes.  A lexeme is a one-character string (a   *)
(* digit, a punctuation mark, a blank) or a word that the regular          *)
(* expressions of the source match as a whole or not at all ("INTEGRITY",  *)
(* "SCAN:", "FACT-CHECK:", "https://", a host name, ...).  Every regular   *)
(* expression and every string method of the source is translated over     *)
(* lexemes; an optional value (a TypeScript `T | undefined`) is the empty  *)
(* tuple when undefined and the one-element tuple <<v>> when defined.       *)
(***************************************************************************)
EXTENDS Integers, Sequences, FiniteSets, TLC

VARIABLES
    \* parseSystemAlert (utils.ts 58-108)
    alert,       \* the argument: Undefined or Some(text)
    hdr,         \* the header the argument was composed with (text, may be empty)
    parts,       \* the labelled segments the argument was composed from
    apc,         \* position inside parseSystemAlert
    content,     \* the local `content`
    integrity,   \* the local `integrity`: Undefined or Some(<<mantissa, scale>>)
    factCheck,   \* the local `factCheck`: Undefined or Some(text)
    action,      \* the local `action`: Undefined or Some(text)
    athrew,      \* TRUE once the call has thrown
    \* getPostImageUrl (utils.ts 115-151)
    post,         \* the argument: Null or Some([image_url, title])
    supabaseUrl,  \* import.meta.env.PUBLIC_SUPABASE_URL: Undefined or Some(text)
    ipc,          \* position inside getPostImageUrl
    actualHost,   \* the local `actualHost`: Undefined (null) or Some(host)
    ires,         \* the returned URL: Undefined until the call returns
    ithrew,       \* TRUE once the call has thrown
    \* runNewsroom (newsroom.js 53-213, part_000 60-227 and 289-446)
    rev,          \* which revision of the script runs
    argWriter,    \* args.writer as minimist delivers it
    isDryRun,     \* args['dry-run'] || false
    npc,          \* position inside runNewsroom
    writerKey,    \* the local `writerKey`
    history,      \* the history query's result [data, error]
    finalData,    \* the local `finalData`: Undefined or Some(JSON value)
    calls,        \* the backend calls made so far, in order
    table,        \* the rows the runs so far inserted into `posts`
    nexit,        \* how the process ended: "running", "exit0", "exit1", "crash"
    nrun,         \* the number of this run of the script
    table0,       \* `posts` as it was when this run started
    runTime,      \* new Date() of the insert step (day and hour, UTC)
    genFailed,    \* the generation call that failed in this run: "none", "draft", "edit"
    manualTopic,  \* args.topic || null: TRUE when a topic was given
    writerPrompt, \* what the prompt of the draft call holds of the history
    \* runVisualizer (visualizer.js 129-163, part_001 25-112, part_002 165-199)
    vrev,         \* which revision of the script runs
    posts,        \* the table `posts`, in the order of the ids
    clock,        \* the time of the database
    vrun,         \* the number of this run of the visualizer
    vpc,          \* position inside the run
    batch,        \* the ids of the selected posts, in the order of the answer
    bidx,         \* the position in `batch` of the post in work
    selCount,     \* the number of rows the table held when the select ran
    customPrompt, \* where the prompt of the post in work comes from
    gmodel,       \* the position of the backend in use in the list of backends
    gattempt,     \* the number of the attempt with that backend
    results,      \* how each handled post of the batch ended
    uploads,      \* the ids the upload calls of this run were made for
    updates,      \* the update calls of this run: [id, set]
    vexit,        \* how the process ended: "running", "exit0", "exit1"
    cooldowns,    \* the waits of the batch loop of this run: [after, ms]
    \* GET of rss.xml.js
    feedStore,    \* the image_url of the published posts of the table, newest first
    feedPosts,    \* what getPosts returned
    feedError,    \* TRUE when the query of getPosts failed
    fpc,          \* position inside GET
    fidx,         \* the post the map callback works on
    items,        \* the image URLs of the items built so far
    feedOut,      \* the image URLs of the emitted feed: Undefined until GET returns
    fthrew,       \* TRUE once GET has thrown
    \* the top of the scripts
    script,       \* which script starts
    env,          \* the names set in process.env
    spc,          \* position in the top-level code
    sreport,      \* the values the printed message names: Undefined when none is printed
    sclients,     \* the clients constructed
    scalls,       \* the number of backend calls made
    sexit,        \* how the process ended: "running", "exit0", "exit1", "crash"
    \* generateArtifact of part_002
    prompt,       \* the argument
    gpc,          \* position inside the function
    model,        \* the position of the loop over `models`
    attempt,      \* the counter of the inner loop
    lastError,    \* what the last failed attempt left
    requests,     \* the fetch calls made: [model, attempt, outcome]
    delays,       \* the waits made: [after, ms], after the request of that number
    gres,         \* "none", "bytes" (returned), "URIError" or "Error" (thrown)
    \* generateAndUploadImage on one post (visualizer.js, part_002)
    dirRev,       \* which revision runs
    dirPost,      \* the argument: [summary, ai_writer]
    dpc,          \* position inside the function
    directorFailed, \* TRUE when the call of the director threw
    dirPrompt,    \* what generateVisualPrompt returned: Undefined before it returns
    sentPrompt,   \* the prompt the image generation was called with
    failedStep,   \* the step whose error reached the catch block, "none" when none did
    \* runs of the visualizer that overlap, and the bucket blog-images
    srev,         \* which revision runs
    sposts,       \* the image_url of the rows of `posts`, newest row first
    bucket,       \* the objects of the bucket: [name, by]
    dateNow,      \* Date.now()
    rpc,          \* the position of each run
    rbatch,       \* the answer each run got from its select
    ridx,         \* the post of the batch each run works on
    rname,        \* fileName of each run
    rres,         \* how each handled post of the batch of each run ended
    rexit         \* how each run ended

alertVars == <<alert, hdr, parts, apc, content, integrity, factCheck, action, athrew>>

imgVars == <<post, supabaseUrl, ipc, actualHost, ires, ithrew>>

newsVars ==
    <<rev, argWriter, isDryRun, npc, writerKey, history, finalData, calls, table, nexit,
      nrun, table0, runTime, genFailed, manualTopic, writerPrompt>>

vizVars ==
    <<vrev, posts, clock, vrun, vpc, batch, bidx, selCount, customPrompt, gmodel, gattempt,
      results, uploads, updates, vexit, cooldowns>>

feedVars == <<feedStore, feedPosts, feedError, fpc, fidx, items, feedOut, fthrew>>

startVars == <<script, env, spc, sreport, sclients, scalls, sexit>>

artVars == <<prompt, gpc, model, attempt, lastError, requests, delays, gres>>

dirVars == <<dirRev, dirPost, dpc, directorFailed, dirPrompt, sentPrompt, failedStep>>

storeVars == <<srev, sposts, bucket, dateNow, rpc, rbatch, ridx, rname, rres, rexit>>

vars ==
    <<alertVars, imgVars, newsVars, vizVars, feedVars, startVars, artVars, dirVars,
      storeVars>>

-----------------------------------------------------------------------------
(* Optional values and text helpers                                        *)

Undefined == <<>>

Some(v) == <<v>>

SetMin(S) == CHOOSE i \in S : \A j \in S : i <= j

\* \s of the regular expressions, and the characters String.prototype.trim removes
IsSpace(t) == t \in {" ", "\n"}

\* \d
IsDigit(t) == t \in {"0", "1", "2", "3", "4", "5", "6", "7", "8", "9"}

DigitVal(t) ==
    CASE t = "0" -> 0 [] t = "1" -> 1 [] t = "2" -> 2 [] t = "3" -> 3
      [] t = "4" -> 4 [] t = "5" -> 5 [] t = "6" -> 6 [] t = "7" -> 7
      [] t = "8" -> 8 [] t = "9" -> 9

\* the i flag: a word and its lower-case spelling match the same pattern
Upper(t) ==
    CASE t = "system alert" -> "SYSTEM ALERT"
      [] t = "sentinel" -> "SENTINEL"
      [] t = "v" -> "V"
      [] t = "integrity" -> "INTEGRITY"
      [] t = "scan:" -> "SCAN:"
      [] t = "fact-check:" -> "FACT-CHECK:"
      [] t = "action:" -> "ACTION:"
      [] t = "note:" -> "NOTE:"
      [] OTHER -> t

\* [.\s,]
IsPunct(t) == IsSpace(t) \/ t \in {".", ","}

RECURSIVE SkipSpaces(_, _)
\* \s* from position i: the first position that holds no blank
SkipSpaces(s, i) ==
    IF i <= Len(s) /\ IsSpace(s[i]) THEN SkipSpaces(s, i + 1) ELSE i

RECURSIVE SkipDigits(_, _)
\* \d* from position i
SkipDigits(s, i) ==
    IF i <= Len(s) /\ IsDigit(s[i]) THEN SkipDigits(s, i + 1) ELSE i

RECURSIVE SkipVersion(_, _)
\* [\d.]* from position i
SkipVersion(s, i) ==
    IF i <= Len(s) /\ (IsDigit(s[i]) \/ s[i] = ".")
    THEN SkipVersion(s, i + 1) ELSE i

RECURSIVE SkipPunct(_, _)
\* [.\s,]* from position i
SkipPunct(s, i) ==
    IF i <= Len(s) /\ IsPunct(s[i]) THEN SkipPunct(s, i + 1) ELSE i

RECURSIVE BackSpaces(_, _)
\* the last position <= i that holds no blank (0 when there is none)
BackSpaces(s, i) ==
    IF i >= 1 /\ IsSpace(s[i]) THEN BackSpaces(s, i - 1) ELSE i

RECURSIVE BackPunct(_, _)
BackPunct(s, i) ==
    IF i >= 1 /\ IsPunct(s[i]) THEN BackPunct(s, i - 1) ELSE i

\* String.prototype.trim
Trim(s) == SubSeq(s, SkipSpaces(s, 1), BackSpaces(s, Len(s)))

\* String.prototype.indexOf(pat) + 1, 0 when pat does not occur
IndexOf(s, pat) ==
    LET I == {i \in 1..(Len(s) - Len(pat) + 1) : SubSeq(s, i, i + Len(pat) - 1) = pat}
    IN  IF I = {} THEN 0 ELSE SetMin(I)

\* String.prototype.includes
Includes(s, pat) == IndexOf(s, pat) > 0

\* String.prototype.replace(pat, rep) with a string pattern: the first occurrence only
ReplaceFirst(s, pat, rep) ==
    LET i == IndexOf(s, pat)
    IN  IF i = 0 THEN s
        ELSE SubSeq(s, 1, i - 1) \o rep \o SubSeq(s, i + Len(pat), Len(s))

-----------------------------------------------------------------------------
(* parseSystemAlert, step by step                                           *)

\* a guard that lets every argument through
NotAlertNever(a) == FALSE

\* `!alert` (line 59): undefined or the empty string
NotAlert(a) == a = Undefined \/ a[1] = <<>>

\* (?:\s*\/\/\s*SENTINEL[\s_]v[\d.]+) at position i: the position after it, or i
SentinelGroupEnd(s, i) ==
    LET a == SkipSpaces(s, i)
        b == SkipSpaces(s, a + 1)
        c == SkipVersion(s, b + 3)
    IN  IF /\ a <= Len(s) /\ s[a] = "//"
           /\ b + 2 <= Len(s)
           /\ Upper(s[b]) = "SENTINEL"
           /\ (IsSpace(s[b + 1]) \/ s[b + 1] = "_")
           /\ Upper(s[b + 2]) = "V"
           /\ c > b + 3
        THEN c ELSE i

\* /^\[SYSTEM ALERT(?:...)?\]\s*/i (line 63): the position after the match, 0 when none
HeaderMatchEnd(s) ==
    IF Len(s) >= 3 /\ s[1] = "[" /\ Upper(s[2]) = "SYSTEM ALERT"
    THEN LET g == SentinelGroupEnd(s, 3)
         IN  IF g > 3 /\ g <= Len(s) /\ s[g] = "]" THEN SkipSpaces(s, g + 1)
             ELSE IF s[3] = "]" THEN SkipSpaces(s, 4)
             ELSE 0
    ELSE 0

\* line 63: alert.replace(header, '').trim()
StripHeader(s) ==
    LET e == HeaderMatchEnd(s)
    IN  Trim(IF e = 0 THEN s ELSE SubSeq(s, e, Len(s)))

\* INTEGRITY[\s_]SCAN: at position i
IntegrityLabelAt(s, i) ==
    /\ i + 2 <= Len(s)
    /\ Upper(s[i]) = "INTEGRITY"
    /\ (IsSpace(s[i + 1]) \/ s[i + 1] = "_")
    /\ Upper(s[i + 2]) = "SCAN:"

\* (\d+(?:\.\d+)?%?) at position j: the position after it, or j when it does not match
NumberEnd(s, j) ==
    LET k == SkipDigits(s, j)
        l == IF k <= Len(s) /\ s[k] = "." /\ SkipDigits(s, k + 1) > k + 1
             THEN SkipDigits(s, k + 1) ELSE k
    IN  IF k = j THEN j
        ELSE IF l <= Len(s) /\ s[l] = "%" THEN l + 1 ELSE l

\* the positions where /INTEGRITY[\s_]SCAN:\s*(\d+(?:\.\d+)?%?)/i matches
IntegrityMatchesAt(s) ==
    {i \in 1..Len(s) :
        IntegrityLabelAt(s, i) /\ NumberEnd(s, SkipSpaces(s, i + 3)) > SkipSpaces(s, i + 3)}

\* a match that takes the last occurrence instead of the leftmost one
IntegrityMatchLast(s) ==
    LET I == IntegrityMatchesAt(s)
    IN  IF I = {} THEN Undefined
        ELSE LET i == CHOOSE x \in I : \A y \in I : y <= x
                 j == SkipSpaces(s, i + 3)
                 e == NumberEnd(s, j)
             IN  Some([all |-> SubSeq(s, i, e - 1), cap |-> SubSeq(s, j, e - 1)])

\* content.match(...) of line 66: the leftmost match; all is match[0], cap is match[1]
IntegrityMatch(s) ==
    LET I == IntegrityMatchesAt(s)
    IN  IF I = {} THEN Undefined
        ELSE LET i == SetMin(I)
                 j == SkipSpaces(s, i + 3)
                 e == NumberEnd(s, j)
             IN  Some([all |-> SubSeq(s, i, e - 1), cap |-> SubSeq(s, j, e - 1)])

RECURSIVE DigitsValue(_)
DigitsValue(ds) ==
    IF ds = <<>> THEN 0
    ELSE 10 * DigitsValue(SubSeq(ds, 1, Len(ds) - 1)) + DigitVal(ds[Len(ds)])

RECURSIVE Normalize(_, _)
\* a number m / 10^sc in lowest decimal form, so that equal numbers are equal pairs
Normalize(m, sc) ==
    IF sc > 0 /\ m % 10 = 0 THEN Normalize(m \div 10, sc - 1) ELSE <<m, sc>>

\* parseFloat of a text that starts with a digit: the longest prefix \d+(\.\d*)?
\* is converted, what follows (the percent sign) is ignored
ParseFloat(str) ==
    LET k == SkipDigits(str, 1)
        l == IF k <= Len(str) /\ str[k] = "." THEN SkipDigits(str, k + 1) ELSE k
    IN  IF l > k
        THEN Normalize(DigitsValue(SubSeq(str, 1, k - 1) \o SubSeq(str, k + 1, l - 1)),
                       l - k - 1)
        ELSE <<DigitsValue(SubSeq(str, 1, k - 1)), 0>>

\* content.replace(/^[.\s,]+/, '').trim() (line 73)
StripLeadingPunct(s) == Trim(SubSeq(s, SkipPunct(s, 1), Len(s)))

\* a lookahead that has lost its label alternatives: only the end of the string
NextMarkerEndOnly(s, k) == k = Len(s) + 1

\* the lookahead of line 78 at position k:
\* (?=(?:ACTION:|NOTE:|INTEGRITY[\s_]SCAN:|\]\s*\[|$))
NextMarkerAt(s, k) ==
    \/ k = Len(s) + 1
    \/ /\ k <= Len(s)
       /\ \/ Upper(s[k]) \in {"ACTION:", "NOTE:"}
          \/ IntegrityLabelAt(s, k)
          \/ /\ s[k] = "]"
             /\ SkipSpaces(s, k + 1) <= Len(s)
             /\ s[SkipSpaces(s, k + 1)] = "["

\* content.match(/FACT-CHECK:\s*(.*?)(?=...)/si) of line 80
FactCheckMatch(s) ==
    LET I == {i \in 1..Len(s) : Upper(s[i]) = "FACT-CHECK:"}
    IN  IF I = {} THEN Undefined
        ELSE LET i == SetMin(I)
                 j == SkipSpaces(s, i + 1)
                 k == SetMin({x \in j..(Len(s) + 1) : NextMarkerAt(s, x)})
             IN  Some([all |-> SubSeq(s, i, k - 1), cap |-> SubSeq(s, j, k - 1)])

\* content.match(/(?:ACTION|NOTE):\s*(.*)/si) of line 88
ActionMatch(s) ==
    LET I == {i \in 1..Len(s) : Upper(s[i]) \in {"ACTION:", "NOTE:"}}
    IN  IF I = {} THEN Undefined
        ELSE LET i == SetMin(I)
                 j == SkipSpaces(s, i + 1)
             IN  Some([all |-> SubSeq(s, i, Len(s)), cap |-> SubSeq(s, j, Len(s))])

\* content.trim().replace(/^[.\s,]+|[.\s,]+$/g, '') (line 97)
Remaining(s) ==
    LET t == Trim(s)
        a == SkipPunct(t, 1)
    IN  IF a > Len(t) THEN <<>> ELSE SubSeq(t, a, BackPunct(t, Len(t)))

\* a parser without the fallback of step 5
FallbackActionNone(act, c) == act

\* a fallback that joins the leftover text to the action without a blank
FallbackActionGlued(act, c) ==
    IF Len(c) > 0 /\ Len(Remaining(c)) > 0
    THEN IF act = Undefined THEN Some(Trim(c)) ELSE Some(act[1] \o Trim(c))
    ELSE act

\* lines 96-105: the new value of `action`
FallbackAction(act, c) ==
    IF Len(c) > 0 /\ Len(Remaining(c)) > 0
    THEN IF act = Undefined \/ act[1] = <<>>
         THEN Some(Trim(c))
         ELSE Some(act[1] \o <<" ">> \o Trim(c))
    ELSE act

-----------------------------------------------------------------------------
(* The arguments parseSystemAlert is called with                            *)

\* the greatest number of labelled segments an argument is composed from
MaxSegs == 3

\* header prefixes: none, the two forms the comment of line 61 names, a lower-case
\* form with an underscore before the version, and the form without a version
\* that the editorial prompt of newsroom.js (line 161) prescribes
NoHeader == <<>>

PlainHeader == <<"[", "SYSTEM ALERT", "]">>

VersionHeader ==
    <<"[", "SYSTEM ALERT", " ", "//", " ", "SENTINEL", " ", "v", "4", ".", "2", "]">>

LowerHeader ==
    <<"[", "system alert", " ", "//", " ", "sentinel", "_", "v", "4", ".", "2", "]">>

BareSentinelHeader == <<"[", "SYSTEM ALERT", " ", "//", " ", "SENTINEL", "]">>

Headers == {NoHeader, PlainHeader, VersionHeader, LowerHeader, BareSentinelHeader}

\* a segment: its kind, its label text (with the blank after it), its value text
\* and, for an integrity segment, the number the value text writes
Seg(k, l, v, n) == [kind |-> k, lab |-> l, val |-> v, n |-> n]

Segments ==
    { Seg("integrity", <<"INTEGRITY", " ", "SCAN:", " ">>, <<"8", "7", "%">>, <<87, 0>>),
      Seg("integrity", <<"integrity", "_", "scan:">>, <<"1", "2", ".", "5", "0">>, <<125, 1>>),
      Seg("integrity", <<"INTEGRITY", " ", "SCAN:", " ">>, <<"9", ".", "5", "%">>, <<95, 1>>),
      Seg("nonumber", <<"INTEGRITY", " ", "SCAN:", " ">>, <<"high">>, <<>>),
      Seg("fact", <<"FACT-CHECK:", " ">>, <<"ok">>, <<>>),
      Seg("fact", <<"fact-check:", " ">>, <<"x", ",", " ", "ok", ".">>, <<>>),
      Seg("fact", <<"FACT-CHECK:", " ">>, <<"[", "x", "]", " ", "[", "ok", "]">>, <<>>),
      Seg("action", <<"ACTION:", " ">>, <<"ok">>, <<>>),
      Seg("action", <<"NOTE:", " ">>, <<"x", ".">>, <<>>),
      Seg("action", <<"ACTION:">>, <<>>, <<>>),
      Seg("text", <<>>, <<"ok">>, <<>>),
      Seg("text", <<>>, <<".", ",">>, <<>>) }

SegSeqs == UNION {[1..n -> Segments] : n \in 0..MaxSegs}

RECURSIVE Body(_)
\* the segments written one after another, one blank between two
Body(ps) ==
    IF ps = <<>> THEN <<>>
    ELSE ps[1].lab \o ps[1].val \o
         (IF Len(ps) > 1 THEN <<" ">> \o Body(Tail(ps)) ELSE <<>>)

\* the composed argument: the header, a line break, the segments
Compose(h, ps) ==
    IF h = <<>> THEN Body(ps)
    ELSE IF ps = <<>> THEN h
    ELSE h \o <<"\n">> \o Body(ps)

-----------------------------------------------------------------------------
(* parseSystemAlert as a state machine                                      *)

AlertInit ==
    /\ \/ alert = Undefined /\ hdr = <<>> /\ parts = <<>>
       \/ \E h \in Headers, ps \in SegSeqs :
             alert = Some(Compose(h, ps)) /\ hdr = h /\ parts = ps
    /\ apc = "entry"
    /\ content = <<>>
    /\ integrity = Undefined
    /\ factCheck = Undefined
    /\ action = Undefined
    /\ athrew = FALSE

\* line 59: if (!alert) return { all undefined }
AlertGuard ==
    /\ apc = "entry"
    /\ apc' = IF NotAlert(alert) THEN "done" ELSE "header"
    /\ UNCHANGED <<alert, hdr, parts, content, integrity, factCheck, action, athrew>>
    /\ UNCHANGED <<imgVars, newsVars, vizVars, feedVars, startVars, artVars,
                   dirVars, storeVars>>

\* line 63; alert.replace on undefined is a TypeError
AlertStripHeader ==
    /\ apc = "header"
    /\ IF alert = Undefined
       THEN athrew' = TRUE /\ apc' = "done" /\ content' = content
       ELSE athrew' = athrew /\ apc' = "integrity" /\ content' = StripHeader(alert[1])
    /\ UNCHANGED <<alert, hdr, parts, integrity, factCheck, action>>
    /\ UNCHANGED <<imgVars, newsVars, vizVars, feedVars, startVars, artVars,
                   dirVars, storeVars>>

\* lines 66-74
AlertIntegrity ==
    /\ apc = "integrity"
    /\ LET m == IntegrityMatch(content)
       IN  IF m # Undefined
           THEN /\ integrity' = Some(ParseFloat(m[1].cap))
                /\ content' = StripLeadingPunct(Trim(ReplaceFirst(content, m[1].all, <<>>)))
           ELSE UNCHANGED <<integrity, content>>
    /\ apc' = "factCheck"
    /\ UNCHANGED <<alert, hdr, parts, factCheck, action, athrew>>
    /\ UNCHANGED <<imgVars, newsVars, vizVars, feedVars, startVars, artVars,
                   dirVars, storeVars>>

\* lines 78-85
AlertFactCheck ==
    /\ apc = "factCheck"
    /\ LET m == FactCheckMatch(content)
       IN  IF m # Undefined
           THEN /\ factCheck' = Some(Trim(m[1].cap))
                /\ content' = Trim(ReplaceFirst(content, m[1].all, <<>>))
           ELSE UNCHANGED <<factCheck, content>>
    /\ apc' = "action"
    /\ UNCHANGED <<alert, hdr, parts, integrity, action, athrew>>
    /\ UNCHANGED <<imgVars, newsVars, vizVars, feedVars, startVars, artVars,
                   dirVars, storeVars>>

\* lines 88-93
AlertAction ==
    /\ apc = "action"
    /\ LET m == ActionMatch(content)
       IN  IF m # Undefined
           THEN /\ action' = Some(Trim(m[1].cap))
                /\ content' = Trim(ReplaceFirst(content, m[1].all, <<>>))
           ELSE UNCHANGED <<action, content>>
    /\ apc' = "fallback"
    /\ UNCHANGED <<alert, hdr, parts, integrity, factCheck, athrew>>
    /\ UNCHANGED <<imgVars, newsVars, vizVars, feedVars, startVars, artVars,
                   dirVars, storeVars>>

\* lines 96-107
AlertFallback ==
    /\ apc = "fallback"
    /\ action' = FallbackAction(action, content)
    /\ apc' = "done"
    /\ UNCHANGED <<alert, hdr, parts, content, integrity, factCheck, athrew>>
    /\ UNCHANGED <<imgVars, newsVars, vizVars, feedVars, startVars, artVars,
                   dirVars, storeVars>>

AlertNext ==
    \/ AlertGuard
    \/ AlertStripHeader
    \/ AlertIntegrity
    \/ AlertFactCheck
    \/ AlertAction
    \/ AlertFallback

-----------------------------------------------------------------------------
(* getPostImageUrl (utils.ts 115-151)                                       *)

Null == <<>>

\* a JavaScript value: null, undefined, a number or a string
JsNull == [t |-> "null", s |-> <<>>]

JsUndefined == [t |-> "undefined", s |-> <<>>]

JsNumber == [t |-> "number", s |-> <<"7">>]

JsString(text) == [t |-> "string", s |-> text]

\* ToBoolean
Truthy(v) == (v.t = "string" /\ v.s # <<>>) \/ v.t = "number"

\* String(v), as a template literal converts it
ToText(v) ==
    CASE v.t = "null" -> <<"null">>
      [] v.t = "undefined" -> <<"undefined">>
      [] OTHER -> v.s

\* line 116
defaultFallback ==
    <<"https://", "image.pollinations.ai", "/", "prompt", "/",
      "static%20noise%20CRT%20screen%20glitch%20cyberpunk%20aesthetic",
      "?width=800&height=600&nologo=true">>

\* line 119
placeholderHost == "your-project-id.supabase.co"

Schemes == {"http://", "https://"}

\* the host names of the model
Hosts == {placeholderHost, "abc.supabase.co", "x.example", "image.pollinations.ai"}

\* new URL(text): a scheme followed by a host is required, anything else is a TypeError
UrlValid(text) == Len(text) >= 2 /\ text[1] \in Schemes /\ text[2] \in Hosts

\* new URL(text).host
UrlHost(text) == text[2]

\* String.prototype.startsWith('http') on a whole-lexeme text
StartsWithHttp(text) ==
    Len(text) >= 1 /\ text[1] \in (Schemes \cup {"http-cat", "http-cat-12345"})

FileExtensions == {".png", ".jpg", ".jpeg", ".webp", ".PNG"}

\* lexemes made of [a-zA-Z0-9._-] only
FileChars == Hosts \cup FileExtensions \cup {"slug-12345", "a", "http-cat", "http-cat-12345", ".gif", "."}

\* /^[a-zA-Z0-9._-]+\.(png|jpg|jpeg|webp)$/i (line 139)
IsFilename(text) ==
    /\ Len(text) >= 2
    /\ \A i \in 1..Len(text) : text[i] \in FileChars
    /\ text[Len(text)] \in FileExtensions

\* supabaseUrl && !supabaseUrl.includes(placeholderHost) (lines 121 and 141)
RealBase(u) == u # Undefined /\ u[1] # <<>> /\ ~Includes(u[1], <<placeholderHost>>)

\* supabaseUrl.replace(/\/$/, '') (line 142)
CleanBaseUrl(text) ==
    IF Len(text) >= 1 /\ text[Len(text)] = "/" THEN SubSeq(text, 1, Len(text) - 1) ELSE text

\* a repair that is skipped
StoredUrlNoRepair(imageUrl, u, host) ==
    IF Truthy(imageUrl) /\ imageUrl.t = "string"
    THEN LET url == imageUrl.s
         IN  IF StartsWithHttp(url) THEN Some(url)
             ELSE IF IsFilename(url) /\ RealBase(u)
             THEN Some(CleanBaseUrl(u[1]) \o
                       <<"/", "storage/v1/object/public/blog-images", "/">> \o url)
             ELSE Undefined
    ELSE Undefined

\* lines 123-145: the URL the stored image reference yields, Undefined when the
\* function falls through to the generative fallback
StoredUrl(imageUrl, u, host) ==
    IF Truthy(imageUrl) /\ imageUrl.t = "string"
    THEN LET url == IF Includes(imageUrl.s, <<placeholderHost>>) /\ host # Undefined
                    THEN ReplaceFirst(imageUrl.s, <<placeholderHost>>, host)
                    ELSE imageUrl.s
         IN  IF StartsWithHttp(url) THEN Some(url)
             ELSE IF IsFilename(url) /\ RealBase(u)
             THEN Some(CleanBaseUrl(u[1]) \o
                       <<"/", "storage/v1/object/public/blog-images", "/">> \o url)
             ELSE Undefined
    ELSE Undefined

\* a lone surrogate: the one code unit encodeURIComponent rejects with a URIError
LoneSurrogate == "<U+D800>"

\* encodeURIComponent of one lexeme
EncodeLexeme(t) ==
    CASE t = " " -> "%20"
      [] t = "," -> "%2C"
      [] OTHER -> t

\* encodeURIComponent
EncodeURIComponent(text) == [i \in 1..Len(text) |-> EncodeLexeme(text[i])]

\* the template of line 149 before the title
StylePrefix ==
    <<"ISO_GHO5T", " ", "cyberpunk", " ", "aesthetic", ",", " ", "32-bit", " ",
      "pixel", " ", "art", ",", " ", "CRT", " ", "scanlines", ",", " ">>

\* line 150
GenerativeUrl(title) ==
    <<"https://", "image.pollinations.ai", "/", "prompt", "/">> \o
    EncodeURIComponent(StylePrefix \o ToText(title)) \o
    <<"?width=1024&height=1024&nologo=true&model=flux">>

\* a guard that lets an absent post through
PostAbsentNever(p) == FALSE

\* `!post` (line 117)
PostAbsent(p) == p = Null

-----------------------------------------------------------------------------
(* The arguments and the configuration getPostImageUrl runs with            *)

VizRevisions == {"visualizer.js", "part_001", "part_002"}

\* the project the visualizer uploads to
StorageBase == <<"https://", "abc.supabase.co">>

\* the name of an uploaded object: slug, Date.now() and .png (part_002 125)
FileName == <<"slug-12345", ".png">>

\* supabase.storage.from('blog-images').getPublicUrl(fileName).data.publicUrl
\* (visualizer.js 106-111): where the uploaded object is served
PublicUrl(name) ==
    CleanBaseUrl(StorageBase) \o <<"/", "storage/v1/object/public/blog-images", "/">> \o name

\* slugs of posts, each made of URL-safe characters only
Slugs == {"slug", "http-cat"}

\* the slug, a hyphen and Date.now(), as one lexeme
FileStem(slug) == IF slug = "slug" THEN "slug-12345" ELSE "http-cat-12345"

\* the name the visualizer uploads the image of a post under (visualizer.js 90,
\* part_001 74, part_002 125)
UploadedName(slug) == <<FileStem(slug), ".png">>

\* the image_url the visualizer writes after the upload: the public URL
\* (visualizer.js 111-118, part_001 95-102) or the file name (part_002 153)
WrittenReference(r, slug) ==
    IF r = "part_002" THEN UploadedName(slug) ELSE PublicUrl(UploadedName(slug))

BaseValues ==
    { Undefined,
      Some(<<>>),
      Some(<<"https://", placeholderHost>>),
      Some(<<"https://", "abc.supabase.co">>),
      Some(<<"https://", "abc.supabase.co", "/">>),
      Some(<<"abc.supabase.co">>),
      Some(<<"not", " ", "a", " ", "url">>) }

ImageUrlValues ==
    { JsNull, JsUndefined, JsNumber,
      JsString(<<>>),
      JsString(<<"https://", "x.example", "/", "a", ".png">>),
      JsString(<<"http://", "x.example", "/", "a", ".png">>),
      JsString(<<"https://", placeholderHost, "/", "storage", "/", "a", ".png">>),
      JsString(<<"https://", placeholderHost, "/", "r", "?", "u", "=", placeholderHost>>),
      JsString(<<placeholderHost, "/", "a", ".png">>),
      JsString(<<"slug-12345", ".png">>),
      JsString(<<"a", ".", "a", ".PNG">>),
      JsString(<<"http-cat", ".png">>),
      JsString(<<"a", ".gif">>),
      JsString(<<"a", "/", "a", ".png">>) }
    \cup {JsString(WrittenReference(r, g)) : r \in VizRevisions, g \in Slugs}

TitleValues ==
    { JsUndefined,
      JsString(<<"My", ",", " ", "Post">>),
      JsString(<<"bad", LoneSurrogate>>) }

ImgInit ==
    /\ post \in {Null} \cup {Some([image_url |-> u, title |-> t]) :
                                u \in ImageUrlValues, t \in TitleValues}
    /\ supabaseUrl \in BaseValues
    /\ ipc = "entry"
    /\ actualHost = Undefined
    /\ ires = Undefined
    /\ ithrew = FALSE

\* lines 116-117
ImgEntry ==
    /\ ipc = "entry"
    /\ IF PostAbsent(post)
       THEN ires' = Some(defaultFallback) /\ ipc' = "done"
       ELSE ires' = ires /\ ipc' = "host"
    /\ UNCHANGED <<post, supabaseUrl, actualHost, ithrew>>
    /\ UNCHANGED <<alertVars, newsVars, vizVars, feedVars, startVars, artVars,
                   dirVars, storeVars>>

\* lines 119-121; new URL throws a TypeError for a text that is no URL
ImgHost ==
    /\ ipc = "host"
    /\ IF RealBase(supabaseUrl)
       THEN IF UrlValid(supabaseUrl[1])
            THEN actualHost' = Some(UrlHost(supabaseUrl[1])) /\ ithrew' = ithrew /\ ipc' = "stored"
            ELSE actualHost' = actualHost /\ ithrew' = TRUE /\ ipc' = "done"
       ELSE actualHost' = Undefined /\ ithrew' = ithrew /\ ipc' = "stored"
    /\ UNCHANGED <<post, supabaseUrl, ires>>
    /\ UNCHANGED <<alertVars, newsVars, vizVars, feedVars, startVars, artVars,
                   dirVars, storeVars>>

\* lines 123-145; reading image_url of null is a TypeError
ImgStored ==
    /\ ipc = "stored"
    /\ IF post = Null
       THEN ithrew' = TRUE /\ ires' = ires /\ ipc' = "done"
       ELSE LET r == StoredUrl(post[1].image_url, supabaseUrl, actualHost)
            IN  /\ ithrew' = ithrew
                /\ ires' = r
                /\ ipc' = IF r = Undefined THEN "fallback" ELSE "done"
    /\ UNCHANGED <<post, supabaseUrl, actualHost>>
    /\ UNCHANGED <<alertVars, newsVars, vizVars, feedVars, startVars, artVars,
                   dirVars, storeVars>>

\* lines 149-150; encodeURIComponent throws a URIError on a lone surrogate
ImgFallback ==
    /\ ipc = "fallback"
    /\ IF \E i \in 1..Len(ToText(post[1].title)) : ToText(post[1].title)[i] = LoneSurrogate
       THEN ithrew' = TRUE /\ ires' = ires
       ELSE ithrew' = ithrew /\ ires' = Some(GenerativeUrl(post[1].title))
    /\ ipc' = "done"
    /\ UNCHANGED <<post, supabaseUrl, actualHost>>
    /\ UNCHANGED <<alertVars, newsVars, vizVars, feedVars, startVars, artVars,
                   dirVars, storeVars>>

ImgNext ==
    \/ ImgEntry
    \/ ImgHost
    \/ ImgStored
    \/ ImgFallback

-----------------------------------------------------------------------------
(* runNewsroom                                                              *)

Revisions == {"newsroom.js", "part_000 (1)", "part_000 (2)"}

\* Object.keys(PERSONAS): newsroom.js 21-50, part_000 28-57 and 257-286
PersonaKeys(r) ==
    IF r = "newsroom.js" THEN {"AXEL", "V3RA", "R3-CORD", "PATCH"}
    ELSE {"AXEL_WIRE", "V3RA_L1GHT", "R3-CORD", "PATCH"}

\* the key used when --writer is not given (line 56 / line 63)
DefaultWriter(r) == IF r = "newsroom.js" THEN "AXEL" ELSE "AXEL_WIRE"

\* String.prototype.toUpperCase on a one-word text
ToUpperCase(w) ==
    CASE w = "axel" -> "AXEL"
      [] w = "patch" -> "PATCH"
      [] w = "axel_wire" -> "AXEL_WIRE"
      [] w = "nobody" -> "NOBODY"
      [] OTHER -> w

\* the catch block: newsroom.js 209-212 logs and returns, part_000 222-226 and
\* 441-445 also call process.exit(1)
CatchExit(r) == IF r = "newsroom.js" THEN "exit0" ELSE "exit1"

\* a JSON document: null, a number, or an object with some members
JsonNull == [t |-> "null", f |-> {}, status |-> "", published_at |-> <<>>]

JsonNumber == [t |-> "number", f |-> {}, status |-> "", published_at |-> <<>>]

JsonObject(members, st, pub) ==
    [t |-> "object", f |-> members, status |-> st, published_at |-> pub]

RECURSIVE StripFences(_)
\* the replace of line 175: every code-fence marker (three backticks, written
\* <fence> here, with or without the word json) is removed
StripFences(text) ==
    IF text = <<>> THEN <<>>
    ELSE IF text[1] \in {"<fence>json", "<fence>"} THEN StripFences(Tail(text))
    ELSE <<text[1]>> \o StripFences(Tail(text))

\* line 175: the fences removed, the rest trimmed
CleanJson(text) == Trim(StripFences(text))

\* the member lexemes: "title" stands for "title": "<a string>", and so on
MemberLexemes == {"title", "slug", "content", "status:draft", "published_at:old"}

MemberName(m) ==
    CASE m = "status:draft" -> "status"
      [] m = "published_at:old" -> "published_at"
      [] OTHER -> m

\* a point in time: the day and the hour of the day, in UTC
Time(d, h) == [day |-> d, hour |-> h]

\* the date a published_at member of the editorial JSON holds
OldDate == Time(1, 13)

\* JSON.parse: Undefined when it throws a SyntaxError
JsonParse(text) ==
    IF text = <<"null">> THEN Some(JsonNull)
    ELSE IF text = <<"7">> THEN Some(JsonNumber)
    ELSE IF /\ Len(text) >= 2 /\ text[1] = "{" /\ text[Len(text)] = "}"
            /\ \A i \in 2..(Len(text) - 1) : text[i] \in MemberLexemes
    THEN Some(JsonObject({MemberName(text[i]) : i \in 2..(Len(text) - 1)},
                         IF \E i \in 2..(Len(text) - 1) : text[i] = "status:draft"
                         THEN "draft" ELSE "",
                         IF \E i \in 2..(Len(text) - 1) : text[i] = "published_at:old"
                         THEN Some(OldDate) ELSE Undefined))
    ELSE Undefined

\* lines 190-191 (part_000 200-203, 420-421): seven days after `now`; the first
\* revision of part_000 then sets the time of day to 00:00 UTC
PublishDate(r, now) ==
    IF r = "part_000 (1)" THEN Time(now.day + 7, 0) ELSE Time(now.day + 7, now.hour)

\* a payload whose spread comes last: the members of finalData win
PayloadSpreadLast(fd, r, now) ==
    [t |-> "object", f |-> fd.f \cup {"status", "published_at"},
     status |-> IF "status" \in fd.f THEN fd.status ELSE "published",
     published_at |-> IF "published_at" \in fd.f THEN fd.published_at
                      ELSE Some(PublishDate(r, now))]

\* lines 193-197: { ...finalData, status: 'published', published_at: ... }
Payload(fd, r, now) ==
    [t |-> "object", f |-> fd.f \cup {"status", "published_at"}, status |-> "published",
     published_at |-> Some(PublishDate(r, now))]

\* what the two generation calls may answer: "throws", or a text
DraftOutcomes == {"throws", "text"}

SentinelTexts ==
    { <<"<fence>json", "\n", "{", "title", "slug", "content", "}", "\n", "<fence>">>,
      <<"{", "title", "slug", "content", "status:draft", "published_at:old", "}">>,
      <<"{", "title", "}">>,
      <<"{", "}">>,
      <<"null">>,
      <<"7">>,
      <<"Sorry", ",", " ", "{">> }

WriterValues ==
    { JsUndefined,
      JsString(<<>>),
      JsString(<<"AXEL">>),
      JsString(<<"axel">>),
      JsString(<<"axel_wire">>),
      JsString(<<"patch">>),
      JsString(<<"nobody">>),
      JsNumber,
      [t |-> "boolean", s |-> <<"true">>] }

\* the rows the history query may return: the last posts of the persona,
\* newest first (lines 90-95)
HistoryRows == {<<>>, <<"post 1">>, <<"post 2", "post 1">>}

\* the answers of the query: the rows and no error, or an error and no rows
HistoryAnswers ==
    {[data |-> Some(h), error |-> FALSE] : h \in HistoryRows}
        \cup {[data |-> Null, error |-> TRUE]}

\* lines 102-104: the title and content of every row of the history, nothing
\* of a post when there is no row
StyleMemory(data) ==
    IF data # Null /\ Len(data[1]) > 0 THEN data[1] ELSE <<>>

\* lines 109-111: the titles not to repeat; history?.map(...) is undefined when
\* history is null, and a given topic replaces the sentence
AvoidTitles(data, topic) ==
    IF topic \/ data = Null THEN <<>> ELSE data[1]

NoPrompt == [memory |-> <<>>, avoid |-> <<>>]

\* `history` before the query has answered
NoHistory == [data |-> Null, error |-> FALSE]

\* lines 113-129: the posts whose title or content the writer prompt holds
WriterPrompt(data, topic) ==
    [memory |-> StyleMemory(data), avoid |-> AvoidTitles(data, topic)]

\* a run that goes from the history query to the editorial call
AfterHistorySkipsDraft(answer) == "edit"

\* lines 97-99: an error of the history query is logged as a warning
AfterHistoryAbort(answer) == IF answer.error THEN "done" ELSE "draft"

AfterHistory(answer) == "draft"

\* the times a run may reach the insert step at
Times == {Time(d, h) : d \in {2, 3}, h \in {0, 13}}

\* no insert step yet
NoTime == Time(0, 0)

NewsInit ==
    /\ rev \in Revisions
    /\ argWriter \in WriterValues
    /\ isDryRun \in BOOLEAN
    /\ npc = "args"
    /\ writerKey = ""
    /\ history = NoHistory
    /\ finalData = Undefined
    /\ calls = <<>>
    /\ table = <<>>
    /\ nexit = "running"
    /\ nrun = 1
    /\ table0 = <<>>
    /\ runTime = NoTime
    /\ genFailed = "none"
    /\ manualTopic \in BOOLEAN
    /\ writerPrompt = NoPrompt

\* (args.writer || default).toUpperCase() (line 56 / line 63): Undefined when the
\* value has no toUpperCase method and the call throws a TypeError
WriterKeyOf(r, w) ==
    IF w.t = "string" /\ w.s # <<>> THEN Some(ToUpperCase(w.s[1]))
    ELSE IF w.t \in {"number", "boolean"} THEN Undefined
    ELSE Some(DefaultWriter(r))

\* lines 55-58; a TypeError here is outside the try block: the promise that
\* runNewsroom() returns is rejected and nothing handles it
NewsParseArgs ==
    /\ npc = "args"
    /\ LET k == WriterKeyOf(rev, argWriter)
       IN  IF k = Undefined
           THEN writerKey' = writerKey /\ nexit' = "crash" /\ npc' = "done"
           ELSE writerKey' = k[1] /\ nexit' = nexit /\ npc' = "persona"
    /\ UNCHANGED <<rev, argWriter, isDryRun, history, finalData, calls, table>>
    /\ UNCHANGED <<nrun, table0, runTime, genFailed, manualTopic, writerPrompt>>
    /\ UNCHANGED <<alertVars, imgVars, vizVars, feedVars, startVars, artVars,
                   dirVars, storeVars>>

\* lines 60-66
NewsSelectPersona ==
    /\ npc = "persona"
    /\ IF writerKey \in PersonaKeys(rev)
       THEN npc' = "history" /\ nexit' = nexit
       ELSE npc' = "done" /\ nexit' = "exit0"
    /\ UNCHANGED <<rev, argWriter, isDryRun, writerKey, history, finalData, calls, table>>
    /\ UNCHANGED <<nrun, table0, runTime, genFailed, manualTopic, writerPrompt>>
    /\ UNCHANGED <<alertVars, imgVars, vizVars, feedVars, startVars, artVars,
                   dirVars, storeVars>>

\* lines 90-99: the query's error is logged and the run goes on
NewsFetchHistory ==
    /\ npc = "history"
    /\ calls' = Append(calls, "history")
    /\ \E answer \in HistoryAnswers :
          /\ history' = answer
          /\ npc' = AfterHistory(answer)
    /\ UNCHANGED <<rev, argWriter, isDryRun, writerKey, finalData, table, nexit>>
    /\ UNCHANGED <<nrun, table0, runTime, genFailed, manualTopic, writerPrompt>>
    /\ UNCHANGED <<alertVars, imgVars, vizVars, feedVars, startVars, artVars,
                   dirVars, storeVars>>

\* where the run goes after the draft call: a rejected generateContent (line
\* 132) or a throwing response.text() (line 133) leaves the try block
AfterDraftContinue(o) == "edit"

AfterDraft(o) == IF o = "throws" THEN "done" ELSE "edit"

\* lines 102-133: the prompt is put together and sent
NewsDraft ==
    /\ npc = "draft"
    /\ calls' = Append(calls, "draft")
    /\ writerPrompt' = WriterPrompt(history.data, manualTopic)
    /\ \E o \in DraftOutcomes :
          /\ npc' = AfterDraft(o)
          /\ nexit' = IF o = "throws" THEN CatchExit(rev) ELSE nexit
          /\ genFailed' = IF o = "throws" THEN "draft" ELSE genFailed
    /\ UNCHANGED <<rev, argWriter, isDryRun, writerKey, history, finalData, table>>
    /\ UNCHANGED <<nrun, table0, runTime, manualTopic>>
    /\ UNCHANGED <<alertVars, imgVars, vizVars, feedVars, startVars, artVars,
                   dirVars, storeVars>>

\* lines 180-184: a dry run prints the parsed value and returns, any other run
\* goes on to the insert
AfterParseInsert(dry) == "insert"

AfterParse(dry) == IF dry THEN "done" ELSE "insert"

\* lines 171-184: the editorial call, the clean-up, JSON.parse, the log line that
\* reads finalData.title (a TypeError when finalData is null) and the dry run
NewsEdit ==
    /\ npc = "edit"
    /\ calls' = Append(calls, "edit")
    /\ \/ /\ npc' = "done" /\ nexit' = CatchExit(rev) /\ finalData' = finalData
          /\ genFailed' = "edit"
       \/ \E text \in SentinelTexts :
             LET v == JsonParse(CleanJson(text))
             IN  /\ genFailed' = genFailed
                 /\ IF v = Undefined \/ v[1].t = "null"
                    THEN npc' = "done" /\ nexit' = CatchExit(rev) /\ finalData' = finalData
                    ELSE /\ finalData' = v
                         /\ npc' = AfterParse(isDryRun)
                         /\ nexit' = IF isDryRun THEN "exit0" ELSE nexit
    /\ UNCHANGED <<rev, argWriter, isDryRun, writerKey, history, table>>
    /\ UNCHANGED <<nrun, table0, runTime, manualTopic, writerPrompt>>
    /\ UNCHANGED <<alertVars, imgVars, vizVars, feedVars, startVars, artVars,
                   dirVars, storeVars>>

\* lines 190-208: the insert; its error is logged (newsroom.js) or ends the
\* process with code 1 (part_000)
NewsInsert ==
    /\ npc = "insert"
    /\ calls' = Append(calls, "insert")
    /\ \E now \in Times :
          /\ runTime' = now
          /\ \/ table' = Append(table, Payload(finalData[1], rev, now)) /\ nexit' = "exit0"
             \/ table' = table /\ nexit' = CatchExit(rev)
    /\ npc' = "done"
    /\ UNCHANGED <<rev, argWriter, isDryRun, writerKey, history, finalData>>
    /\ UNCHANGED <<nrun, table0, genFailed, manualTopic, writerPrompt>>
    /\ UNCHANGED <<alertVars, imgVars, vizVars, feedVars, startVars, artVars,
                   dirVars, storeVars>>

\* how many times the script is run, one run after the other
MaxRuns == 2

\* line 215: the script is started again, with new arguments, on the table the
\* earlier runs left
NewsRunAgain ==
    /\ npc = "done"
    /\ nrun < MaxRuns
    /\ nrun' = nrun + 1
    /\ argWriter' \in WriterValues
    /\ isDryRun' \in BOOLEAN
    /\ npc' = "args"
    /\ writerKey' = ""
    /\ history' = NoHistory
    /\ finalData' = Undefined
    /\ calls' = <<>>
    /\ nexit' = "running"
    /\ table0' = table
    /\ runTime' = NoTime
    /\ genFailed' = "none"
    /\ manualTopic' \in BOOLEAN
    /\ writerPrompt' = NoPrompt
    /\ UNCHANGED <<rev, table>>
    /\ UNCHANGED <<alertVars, imgVars, vizVars, feedVars, startVars, artVars,
                   dirVars, storeVars>>

NewsNext ==
    \/ NewsParseArgs
    \/ NewsSelectPersona
    \/ NewsFetchHistory
    \/ NewsDraft
    \/ NewsEdit
    \/ NewsInsert
    \/ NewsRunAgain

-----------------------------------------------------------------------------
(* runVisualizer (visualizer.js, part_001, part_002) on the posts table     *)

\* how many rows the posts table holds at most
MaxPosts == 4

\* how many times the visualizer is run, one run after the other
MaxVizRuns == 2

\* .limit(3) of visualizer.js 138 and part_002 174, .limit(1) of part_001 35
BatchLimit(r) == IF r = "part_001" THEN 1 ELSE 3

\* generateVisualPrompt exists in visualizer.js and part_002; part_001 builds the
\* prompt from the summary (line 55)
FirstStep(r) == IF r = "part_001" THEN "generate" ELSE "director"

\* part_002 69
maxRetries == 3

\* part_002 73: the backends generateArtifact tries in turn; the other revisions
\* make one call to one backend
GeneratorModels(r) ==
    IF r = "part_002" THEN <<"flux", "turbo", "default">>
    ELSE IF r = "visualizer.js" THEN <<"gemini-2.5-flash-image">>
    ELSE <<"pollinations">>

\* the attempts made with one backend
Attempts(r) == IF r = "part_002" THEN maxRetries ELSE 1

\* a catch block that ends the run in every revision
AfterCatchStops(r) == "done"

\* a catch block that goes on with the batch in every revision
AfterCatchContinues(r) == "next"

\* the catch block of generateAndUploadImage: visualizer.js 124-126 and part_001
\* 109-111 log and return, part_002 159-162 ends the process with code 1
AfterCatch(r) == IF r = "part_002" THEN "done" ELSE "next"

CatchCode(r, code) == IF r = "part_002" THEN "exit1" ELSE code

\* the select's error: visualizer.js 140-143 and part_001 37-40 return,
\* part_002 176-179 ends the process with code 1
SelectErrorCode(r) == IF r = "part_002" THEN "exit1" ELSE "exit0"

\* every backend and every attempt used up (part_002 75-109; one call in
\* visualizer.js 76-84 and part_001 65-66): the error is thrown into the catch
AfterExhaustedUpload(r) == "upload"

AfterExhausted(r) == AfterCatch(r)

\* a loop that waits after every post
CoolsDownAlways(r, k, n) == r # "part_001"

\* visualizer.js 156, part_002 192: posts.indexOf(post) < posts.length - 1, for
\* the post at position k of n; part_001 has no loop
CoolsDown(r, k, n) == r # "part_001" /\ k < n

\* a row of `posts`: id is the serial key, cols stands for every column other
\* than id, created_at and image_url
Row(i, t, img) == [id |-> i, created_at |-> t, image_url |-> img, cols |-> "inserted"]

\* an image reference: the public URL (visualizer.js 111-118, part_001 95-102) or
\* the file name (part_002 125, 153) of the object uploaded for post `i`; the
\* name holds the slug of the post and Date.now()
Reference(r, i, now) ==
    Some([form |-> IF r = "part_002" THEN "fileName" ELSE "publicUrl", of |-> i, at |-> now])

\* an image_url that came with the payload of the insert
PayloadReference == Some([form |-> "payload", of |-> 0, at |-> 0])

\* .is('image_url', null)
PendingAll(rows) == 1..Len(rows)

Pending(rows) == {i \in 1..Len(rows) : rows[i].image_url = Undefined}

\* .order('created_at', { ascending: false })
NewestFirst(rows, b) ==
    \A k \in 1..(Len(b) - 1) : rows[b[k]].created_at >= rows[b[k + 1]].created_at

Min(a, b) == IF a <= b THEN a ELSE b

\* the answer of the select: the first n rows of the filtered, ordered table;
\* rows of one created_at come in any order
IsSelectionUnordered(rows, n, b) ==
    /\ \A k \in 1..Len(b) : b[k] \in Pending(rows)
    /\ \A k, l \in 1..Len(b) : k # l => b[k] # b[l]
    /\ Len(b) = Min(n, Cardinality(Pending(rows)))

IsSelection(rows, n, b) ==
    /\ \A k \in 1..Len(b) : b[k] \in Pending(rows)
    /\ \A k, l \in 1..Len(b) : k # l => b[k] # b[l]
    /\ Len(b) = Min(n, Cardinality(Pending(rows)))
    /\ NewestFirst(rows, b)
    /\ \A j \in Pending(rows) :
          (\A k \in 1..Len(b) : b[k] # j)
              => \A k \in 1..Len(b) : rows[b[k]].created_at >= rows[j].created_at

Selections(rows, n) ==
    {b \in UNION {[1..m -> 1..Len(rows)] : m \in 0..n} : IsSelection(rows, n, b)}

\* .update({ image_url: v }).eq('id', i)
UpdateRowAll(rows, i, v) ==
    [k \in 1..Len(rows) |-> [rows[k] EXCEPT !.image_url = v, !.cols = "updated"]]

UpdateRow(rows, i, v) ==
    [k \in 1..Len(rows) |-> IF rows[k].id = i THEN [rows[k] EXCEPT !.image_url = v] ELSE rows[k]]

VizInit ==
    /\ vrev \in VizRevisions
    /\ posts = <<>>
    /\ clock = 1
    /\ vrun = 1
    /\ vpc = "select"
    /\ batch = <<>>
    /\ bidx = 0
    /\ selCount = 0
    /\ customPrompt = "none"
    /\ gmodel = 1
    /\ gattempt = 1
    /\ results = <<>>
    /\ uploads = <<>>
    /\ updates = <<>>
    /\ vexit = "running"
    /\ cooldowns = <<>>

\* newsroom.js 193-201: a run of the content pipeline inserts its payload; the
\* table gives the row its id and its created_at
ContentInsert ==
    /\ Len(posts) < MaxPosts
    /\ \E t \in {clock, clock + 1}, img \in {Undefined, PayloadReference} :
          /\ posts' = Append(posts, Row(Len(posts) + 1, t, img))
          /\ clock' = t
    /\ UNCHANGED <<vrev, cooldowns, vrun, vpc, batch, bidx, selCount, customPrompt, gmodel, gattempt,
                   results, uploads, updates, vexit>>
    /\ UNCHANGED <<alertVars, imgVars, newsVars, feedVars, startVars, artVars,
                   dirVars, storeVars>>

\* visualizer.js 133-150, part_001 30-49, part_002 169-186
VizSelect ==
    /\ vpc = "select"
    /\ \/ /\ vpc' = "done" /\ vexit' = SelectErrorCode(vrev)
          /\ UNCHANGED <<batch, bidx, selCount, customPrompt>>
       \/ \E b \in Selections(posts, BatchLimit(vrev)) :
             /\ batch' = b
             /\ selCount' = Len(posts)
             /\ IF b = <<>>
                THEN vpc' = "done" /\ vexit' = "exit0" /\ UNCHANGED <<bidx, customPrompt>>
                ELSE /\ vpc' = FirstStep(vrev) /\ vexit' = vexit /\ bidx' = 1
                     /\ customPrompt' = IF vrev = "part_001" THEN "summary" ELSE "none"
    /\ UNCHANGED <<vrev, cooldowns, posts, clock, vrun, gmodel, gattempt, results, uploads, updates>>
    /\ UNCHANGED <<alertVars, imgVars, newsVars, feedVars, startVars, artVars,
                   dirVars, storeVars>>

\* generateVisualPrompt (visualizer.js 30-64, part_002 31-65): the director's
\* sentence, or the default prompt when the call fails
VizDirector ==
    /\ vpc = "director"
    /\ customPrompt' \in {"director", "default"}
    /\ vpc' = "generate"
    /\ UNCHANGED <<vrev, cooldowns, posts, clock, vrun, batch, bidx, selCount, gmodel, gattempt,
                   results, uploads, updates, vexit>>
    /\ UNCHANGED <<alertVars, imgVars, newsVars, feedVars, startVars, artVars,
                   dirVars, storeVars>>

\* one request for the image: visualizer.js 75-84, part_001 65-66, one turn of
\* the loops of part_002 75-107
VizGenerate ==
    /\ vpc = "generate"
    /\ \E o \in {"image", "failed"} :
          IF o = "image"
          THEN /\ vpc' = "upload"
               /\ UNCHANGED <<gmodel, gattempt, results, vexit>>
          ELSE IF gattempt < Attempts(vrev)
          THEN /\ gattempt' = gattempt + 1
               /\ UNCHANGED <<vpc, gmodel, results, vexit>>
          ELSE IF gmodel < Len(GeneratorModels(vrev))
          THEN /\ gmodel' = gmodel + 1 /\ gattempt' = 1
               /\ UNCHANGED <<vpc, results, vexit>>
          ELSE /\ results' = Append(results, "generation")
               /\ vpc' = AfterExhausted(vrev)
               /\ vexit' = CatchCode(vrev, vexit)
               /\ UNCHANGED <<gmodel, gattempt>>
    /\ UNCHANGED <<vrev, cooldowns, posts, clock, vrun, batch, bidx, selCount, customPrompt,
                   uploads, updates>>
    /\ UNCHANGED <<alertVars, imgVars, newsVars, feedVars, startVars, artVars,
                   dirVars, storeVars>>

\* visualizer.js 90-103, part_001 74-87, part_002 125-138
VizUpload ==
    /\ vpc = "upload"
    /\ uploads' = Append(uploads, batch[bidx])
    /\ \/ vpc' = "update" /\ UNCHANGED <<results, vexit>>
       \/ /\ results' = Append(results, "upload")
          /\ vpc' = AfterCatch(vrev)
          /\ vexit' = CatchCode(vrev, vexit)
    /\ UNCHANGED <<vrev, cooldowns, posts, clock, vrun, batch, bidx, selCount, customPrompt, gmodel,
                   gattempt, updates>>
    /\ UNCHANGED <<alertVars, imgVars, newsVars, feedVars, startVars, artVars,
                   dirVars, storeVars>>

\* visualizer.js 106-123, part_001 90-107, part_002 141-158
VizUpdate ==
    /\ vpc = "update"
    /\ LET v == Reference(vrev, batch[bidx], vrun)
       IN  /\ updates' = Append(updates, [id |-> batch[bidx], set |-> v])
           /\ \/ /\ posts' = UpdateRow(posts, batch[bidx], v)
                 /\ results' = Append(results, "ok")
                 /\ vpc' = "next"
                 /\ vexit' = vexit
              \/ /\ posts' = posts
                 /\ results' = Append(results, "update")
                 /\ vpc' = AfterCatch(vrev)
                 /\ vexit' = CatchCode(vrev, vexit)
    /\ UNCHANGED <<vrev, cooldowns, clock, vrun, batch, bidx, selCount, customPrompt, gmodel, gattempt,
                   uploads>>
    /\ UNCHANGED <<alertVars, imgVars, newsVars, feedVars, startVars, artVars,
                   dirVars, storeVars>>

\* the loop of visualizer.js 152-162 and part_002 188-198; part_001 has one post
VizNextPost ==
    /\ vpc = "next"
    /\ IF bidx < Len(batch)
       THEN /\ bidx' = bidx + 1
            /\ vpc' = FirstStep(vrev)
            /\ gmodel' = 1 /\ gattempt' = 1
            /\ customPrompt' = IF vrev = "part_001" THEN "summary" ELSE "none"
            /\ vexit' = vexit
       ELSE /\ vpc' = "done" /\ vexit' = "exit0"
            /\ UNCHANGED <<bidx, gmodel, gattempt, customPrompt>>
    /\ cooldowns' = IF CoolsDown(vrev, bidx, Len(batch))
                    THEN Append(cooldowns, [after |-> bidx, ms |-> 5000])
                    ELSE cooldowns
    /\ UNCHANGED <<vrev, posts, clock, vrun, batch, selCount, results, uploads, updates>>
    /\ UNCHANGED <<alertVars, imgVars, newsVars, feedVars, startVars, artVars,
                   dirVars, storeVars>>

\* visualizer.js 165: the script is started again on the table as it is
VizRunAgain ==
    /\ vpc = "done"
    /\ vrun < MaxVizRuns
    /\ vrun' = vrun + 1
    /\ vpc' = "select"
    /\ batch' = <<>> /\ bidx' = 0 /\ selCount' = 0
    /\ customPrompt' = "none"
    /\ gmodel' = 1 /\ gattempt' = 1
    /\ results' = <<>> /\ uploads' = <<>> /\ updates' = <<>>
    /\ vexit' = "running"
    /\ cooldowns' = <<>>
    /\ UNCHANGED <<vrev, posts, clock>>
    /\ UNCHANGED <<alertVars, imgVars, newsVars, feedVars, startVars, artVars,
                   dirVars, storeVars>>

VizNext ==
    \/ ContentInsert
    \/ VizSelect
    \/ VizDirector
    \/ VizGenerate
    \/ VizUpload
    \/ VizUpdate
    \/ VizNextPost
    \/ VizRunAgain

-----------------------------------------------------------------------------
(* generateArtifact (part_002 67-110)                                       *)

\* the prompts the function is called with: the text of the director, the
\* default prompt, and a text that holds a lone surrogate
Prompts ==
    { <<"a", " ", "cat">>,
      <<"summary", ".", " ", "STYLE:", " ", "pixel", " ", "art">>,
      <<"a", " ", LoneSurrogate>> }

\* encodeURIComponent (line 68): Undefined when it throws a URIError
CleanPrompt(text) ==
    IF \E i \in 1..Len(text) : text[i] = LoneSurrogate THEN Undefined
    ELSE Some(EncodeURIComponent(text))

\* line 73
models == GeneratorModels("part_002")

\* how a fetch call of lines 81-85 ends: the bytes of an ok response (87-90), an
\* ok response whose body cannot be read (88 rejects), a response that is not
\* ok (92-94), a rejected fetch (96-99)
RequestOutcomes == {"bytes", "body", "status", "rejected"}

\* a function that takes no response for a success
SucceededNever(o) == FALSE

\* lines 87-90: the function returns
Succeeded(o) == o = "bytes"

\* lines 94 and 98
ErrorOf(o) == IF o = "status" THEN "Status" ELSE "message"

\* a wait that grows by one second with each attempt
DelayLinear(k) == (k + 1) * 1000

\* line 103: Math.pow(2, attempt) * 1000 milliseconds
Delay(k) == (2 ^ k) * 1000

\* line 102
WaitsAfter(k) == k < maxRetries

ArtInit ==
    /\ prompt \in Prompts
    /\ gpc = "encode"
    /\ model = 1
    /\ attempt = 1
    /\ lastError = "null"
    /\ requests = <<>>
    /\ delays = <<>>
    /\ gres = "none"

\* lines 68-73
ArtEncode ==
    /\ gpc = "encode"
    /\ IF CleanPrompt(prompt) = Undefined
       THEN gres' = "URIError" /\ gpc' = "done"
       ELSE gres' = gres /\ gpc' = "request"
    /\ UNCHANGED <<prompt, model, attempt, lastError, requests, delays>>
    /\ UNCHANGED <<alertVars, imgVars, newsVars, vizVars, feedVars, startVars,
                   dirVars, storeVars>>

\* lines 77-100: one turn of the inner loop up to the end of the try statement
ArtRequest ==
    /\ gpc = "request"
    /\ \E o \in RequestOutcomes :
          /\ requests' = Append(requests, [model |-> models[model], attempt |-> attempt,
                                           outcome |-> o])
          /\ IF Succeeded(o)
             THEN gres' = "bytes" /\ gpc' = "done" /\ lastError' = lastError
             ELSE gres' = gres /\ gpc' = "failed" /\ lastError' = ErrorOf(o)
    /\ UNCHANGED <<prompt, model, attempt, delays>>
    /\ UNCHANGED <<alertVars, imgVars, newsVars, vizVars, feedVars, startVars,
                   dirVars, storeVars>>

\* lines 102-105 and the attempt++ of line 76
ArtBackoff ==
    /\ gpc = "failed"
    /\ delays' = IF WaitsAfter(attempt)
                 THEN Append(delays, [after |-> Len(requests), ms |-> Delay(attempt)])
                 ELSE delays
    /\ attempt' = attempt + 1
    /\ gpc' = IF attempt + 1 <= maxRetries THEN "request" ELSE "exhausted"
    /\ UNCHANGED <<prompt, model, lastError, requests, gres>>
    /\ UNCHANGED <<alertVars, imgVars, newsVars, vizVars, feedVars, startVars,
                   dirVars, storeVars>>

\* lines 107-110: the next backend, or the throw after the last
ArtNextModel ==
    /\ gpc = "exhausted"
    /\ IF model < Len(models)
       THEN model' = model + 1 /\ attempt' = 1 /\ gpc' = "request" /\ gres' = gres
       ELSE model' = model /\ attempt' = attempt /\ gpc' = "done" /\ gres' = "Error"
    /\ UNCHANGED <<prompt, lastError, requests, delays>>
    /\ UNCHANGED <<alertVars, imgVars, newsVars, vizVars, feedVars, startVars,
                   dirVars, storeVars>>

ArtNext ==
    \/ ArtEncode
    \/ ArtRequest
    \/ ArtBackoff
    \/ ArtNextModel

-----------------------------------------------------------------------------
(* generateVisualPrompt and generateAndUploadImage on one post              *)
(* (visualizer.js 30-127, part_002 31-65 and 112-163)                       *)

RECURSIVE Join(_)
\* Array.prototype.join(", ")
Join(tags) ==
    IF tags = <<>> THEN <<>>
    ELSE IF Len(tags) = 1 THEN <<tags[1]>>
    ELSE <<tags[1], ",", " ">> \o Join(Tail(tags))

\* visualizer.js 20-28, part_002 21-29
ISO_GHO5T_STYLE ==
    Join(<<"cyberpunk aesthetic", "32-bit pixel art", "CRT monitor scanlines",
           "digital glitch artifacts", "low-fidelity surveillance footage aesthetic",
           "data corruption overlays", "heavy grain and noise">>)

\* visualizer.js 34-39, part_002 35-40: the keys of writerStyles
StyledWriters == {"AXEL_WIRE", "V3RA_L1GHT", "R3-CORD", "PATCH"}

\* the value writerStyles holds for a key, each as one lexeme
writerStyles(w) ==
    CASE w = "AXEL_WIRE" ->
           "Aggressive high-contrast red and black palette, kinetic motion blur, mosh pit energy, jagged glitch edges."
      [] w = "V3RA_L1GHT" ->
           "Ethereal Miami-sunset palette (cyan, hot pink, deep purple), fluid data streams, bokeh light artifacts, clean pixel geometry."
      [] w = "R3-CORD" ->
           "Desaturated monochromatic B&W, archival film grain, brutalist architecture, clinical technical diagrams, high-static distortion."
      [] w = "PATCH" ->
           "Night-vision green tint, heavy digital noise, CCTV surveillance aesthetic, fragmented 'lost' data, low-res scavenging vibe."

DefaultStyle == "Standard cyberpunk neon palette (green, purple, cyan, deep black)."

\* line 41 (42): writerStyles[post.ai_writer] || the default
SpecificStyle(w) ==
    IF w.t = "string" /\ Len(w.s) = 1 /\ w.s[1] \in StyledWriters
    THEN writerStyles(w.s[1])
    ELSE DefaultStyle

\* a fallback prompt without the style of the persona
DefaultPromptNoPersona(p) ==
    ToText(p.summary) \o <<".", " ", "STYLE:", " ">> \o ISO_GHO5T_STYLE

\* line 62 (63): the prompt returned when the director call has thrown
DefaultPrompt(p) ==
    ToText(p.summary) \o <<".", " ", "STYLE:", " ">> \o ISO_GHO5T_STYLE
        \o <<",", " ", SpecificStyle(p.ai_writer)>>

\* what the director call may do: throw, or answer a text (trimmed, line 59)
DirectorOutcomes == {<<"throws">>, <<"A", " ", "neon", " ", "alley", ".">>, <<>>}

SummaryValues == {JsNull, JsString(<<"A", " ", "cat">>), JsString(<<"Rain", ".">>)}

AiWriterValues ==
    {JsNull, JsString(<<"NOBODY">>)} \cup {JsString(<<w>>) : w \in StyledWriters}

\* a function that leaves through the catch block when the director has thrown
AfterDirectorAbort(o) == IF o = <<"throws">> THEN "done" ELSE "generate"

\* lines 57-63 and 69-76: generateVisualPrompt catches the error of the director
\* and returns, the caller goes on to the image generation
AfterDirector(o) == "generate"

DirInit ==
    /\ dirRev \in {"visualizer.js", "part_002"}
    /\ dirPost \in [summary : SummaryValues, ai_writer : AiWriterValues]
    /\ dpc = "director"
    /\ directorFailed = FALSE
    /\ dirPrompt = Undefined
    /\ sentPrompt = Undefined
    /\ failedStep = "none"

\* visualizer.js 30-64 and 69, part_002 31-65 and 115
DirDirector ==
    /\ dpc = "director"
    /\ \E o \in DirectorOutcomes :
          /\ directorFailed' = (o = <<"throws">>)
          /\ dirPrompt' = IF o = <<"throws">> THEN Some(DefaultPrompt(dirPost)) ELSE Some(o)
          /\ dpc' = AfterDirector(o)
          /\ failedStep' = IF AfterDirector(o) = "done" THEN "director" ELSE failedStep
    /\ UNCHANGED <<dirRev, dirPost, sentPrompt>>
    /\ UNCHANGED <<alertVars, imgVars, newsVars, vizVars, feedVars, startVars, artVars,
                   storeVars>>

\* visualizer.js 75-87, part_002 121-122: the image generation, called with
\* customPrompt
DirGenerate ==
    /\ dpc = "generate"
    /\ sentPrompt' = dirPrompt
    /\ \/ dpc' = "upload" /\ failedStep' = failedStep
       \/ dpc' = "done" /\ failedStep' = "generation"
    /\ UNCHANGED <<dirRev, dirPost, directorFailed, dirPrompt>>
    /\ UNCHANGED <<alertVars, imgVars, newsVars, vizVars, feedVars, startVars, artVars,
                   storeVars>>

\* visualizer.js 90-103, part_002 125-138
DirUpload ==
    /\ dpc = "upload"
    /\ \/ dpc' = "update" /\ failedStep' = failedStep
       \/ dpc' = "done" /\ failedStep' = "upload"
    /\ UNCHANGED <<dirRev, dirPost, directorFailed, dirPrompt, sentPrompt>>
    /\ UNCHANGED <<alertVars, imgVars, newsVars, vizVars, feedVars, startVars, artVars,
                   storeVars>>

\* visualizer.js 106-123, part_002 141-158
DirUpdate ==
    /\ dpc = "update"
    /\ \/ dpc' = "done" /\ failedStep' = failedStep
       \/ dpc' = "done" /\ failedStep' = "update"
    /\ UNCHANGED <<dirRev, dirPost, directorFailed, dirPrompt, sentPrompt>>
    /\ UNCHANGED <<alertVars, imgVars, newsVars, vizVars, feedVars, startVars, artVars,
                   storeVars>>

DirNext ==
    \/ DirDirector
    \/ DirGenerate
    \/ DirUpload
    \/ DirUpdate

-----------------------------------------------------------------------------
(* Runs of runVisualizer that may overlap, on one table and one bucket      *)
(* (visualizer.js 89-160, part_001 30-111, part_002 124-196)                *)

\* how many posts wait for an image
StorePosts == 2

\* how many runs are started
StoreRuns == 2

\* the greatest value of Date.dateNow()
MaxNow == 2

Runs == 1..StoreRuns

\* fileName: the slug of post i (slugs are unique) and Date.dateNow()
ObjectName(i, t) == [of |-> i, at |-> t]

NoName == ObjectName(0, 0)

Names(b) == {o.name : o \in b}

\* an upload with upsert: true
UploadedUpsert(b, name, p) ==
    Some({o \in b : o.name # name} \cup {[name |-> name, by |-> p]})

\* .upload(fileName, fileBuffer, { upsert: false }) (visualizer.js 95-101): the
\* bucket after the call, Undefined when the name is taken and the call
\* answers with an error
Uploaded(b, name, p) ==
    IF name \in Names(b) THEN Undefined
    ELSE Some(b \cup {[name |-> name, by |-> p]})

\* an update that is applied to a row without an image only
AppliedIfNull(rows, i, ref) ==
    IF rows[i] = Undefined THEN [rows EXCEPT ![i] = ref] ELSE rows

\* .update({ image_url }).eq('id', post.id) (visualizer.js 116-119): the filter
\* names the id only
Applied(rows, i, ref) == [rows EXCEPT ![i] = ref]

\* a catch block that removes the object it has uploaded
KeptRollback(b, name) == {o \in b : o.name # name}

\* the bucket after the catch block (visualizer.js 124-126, part_001 109-111,
\* part_002 159-162): no call removes an object
Kept(b, name) == b

RECURSIVE PendingFrom(_, _)
\* the pending rows from row i on, newest first
PendingFrom(rows, i) ==
    IF i > Len(rows) THEN <<>>
    ELSE IF rows[i] = Undefined THEN <<i>> \o PendingFrom(rows, i + 1)
    ELSE PendingFrom(rows, i + 1)

\* .is('image_url', null).order('created_at', { ascending: false }).limit(n)
Selected(rows, n) ==
    LET q == PendingFrom(rows, 1) IN SubSeq(q, 1, Min(n, Len(q)))

StoreInit ==
    /\ srev \in VizRevisions
    /\ sposts = [i \in 1..StorePosts |-> Undefined]
    /\ bucket = {}
    /\ dateNow = 1
    /\ rpc = [p \in Runs |-> "select"]
    /\ rbatch = [p \in Runs |-> <<>>]
    /\ ridx = [p \in Runs |-> 0]
    /\ rname = [p \in Runs |-> NoName]
    /\ rres = [p \in Runs |-> <<>>]
    /\ rexit = [p \in Runs |-> "running"]

\* time passes
StoreTick ==
    /\ dateNow < MaxNow
    /\ dateNow' = dateNow + 1
    /\ UNCHANGED <<srev, sposts, bucket, rpc, rbatch, ridx, rname, rres, rexit>>
    /\ UNCHANGED <<alertVars, imgVars, newsVars, vizVars, feedVars, startVars, artVars,
                   dirVars>>

\* the catch block of run p after step `step` failed
StoreCatch(p, step) ==
    /\ rres' = [rres EXCEPT ![p] = Append(@, step)]
    /\ rpc' = [rpc EXCEPT ![p] = AfterCatch(srev)]
    /\ rexit' = [rexit EXCEPT ![p] = CatchCode(srev, @)]

\* visualizer.js 133-150, part_001 30-49, part_002 169-186
StoreSelect(p) ==
    /\ rpc[p] = "select"
    /\ \/ /\ rpc' = [rpc EXCEPT ![p] = "done"]
          /\ rexit' = [rexit EXCEPT ![p] = SelectErrorCode(srev)]
          /\ UNCHANGED <<rbatch, ridx>>
       \/ LET b == Selected(sposts, BatchLimit(srev))
          IN  /\ rbatch' = [rbatch EXCEPT ![p] = b]
              /\ IF b = <<>>
                 THEN /\ rpc' = [rpc EXCEPT ![p] = "done"]
                      /\ rexit' = [rexit EXCEPT ![p] = "exit0"]
                      /\ ridx' = ridx
                 ELSE /\ rpc' = [rpc EXCEPT ![p] = "generate"]
                      /\ ridx' = [ridx EXCEPT ![p] = 1]
                      /\ rexit' = rexit
    /\ UNCHANGED <<srev, sposts, bucket, dateNow, rname, rres>>
    /\ UNCHANGED <<alertVars, imgVars, newsVars, vizVars, feedVars, startVars, artVars,
                   dirVars>>

\* the prompt and the image: visualizer.js 69-87, part_001 55-70, part_002 115-122
StoreGenerate(p) ==
    /\ rpc[p] = "generate"
    /\ \/ rpc' = [rpc EXCEPT ![p] = "upload"] /\ UNCHANGED <<rres, rexit>>
       \/ StoreCatch(p, "generation")
    /\ UNCHANGED <<srev, sposts, bucket, dateNow, rbatch, ridx, rname>>
    /\ UNCHANGED <<alertVars, imgVars, newsVars, vizVars, feedVars, startVars, artVars,
                   dirVars>>

\* visualizer.js 90-103, part_001 74-87, part_002 125-138
StoreUpload(p) ==
    /\ rpc[p] = "upload"
    /\ LET name == ObjectName(rbatch[p][ridx[p]], dateNow)
           b == Uploaded(bucket, name, p)
       IN  /\ rname' = [rname EXCEPT ![p] = name]
           /\ \/ /\ b # Undefined
                 /\ bucket' = b[1]
                 /\ rpc' = [rpc EXCEPT ![p] = "update"]
                 /\ UNCHANGED <<rres, rexit>>
              \/ /\ bucket' = bucket
                 /\ StoreCatch(p, "upload")
    /\ UNCHANGED <<srev, sposts, dateNow, rbatch, ridx>>
    /\ UNCHANGED <<alertVars, imgVars, newsVars, vizVars, feedVars, startVars, artVars,
                   dirVars>>

\* visualizer.js 106-126, part_001 90-111, part_002 141-162
StoreUpdate(p) ==
    /\ rpc[p] = "update"
    /\ LET i == rbatch[p][ridx[p]]
       IN  \/ /\ sposts' = Applied(sposts, i, Reference(srev, i, rname[p].at))
              /\ rres' = [rres EXCEPT ![p] = Append(@, "ok")]
              /\ rpc' = [rpc EXCEPT ![p] = "next"]
              /\ UNCHANGED <<bucket, rexit>>
           \/ /\ sposts' = sposts
              /\ bucket' = Kept(bucket, rname[p])
              /\ StoreCatch(p, "update")
    /\ UNCHANGED <<srev, dateNow, rbatch, ridx, rname>>
    /\ UNCHANGED <<alertVars, imgVars, newsVars, vizVars, feedVars, startVars, artVars,
                   dirVars>>

\* the loop of visualizer.js 152-162 and part_002 188-198; part_001 has one post
StoreNextPost(p) ==
    /\ rpc[p] = "next"
    /\ IF ridx[p] < Len(rbatch[p])
       THEN /\ ridx' = [ridx EXCEPT ![p] = @ + 1]
            /\ rpc' = [rpc EXCEPT ![p] = "generate"]
            /\ rexit' = rexit
       ELSE /\ rpc' = [rpc EXCEPT ![p] = "done"]
            /\ rexit' = [rexit EXCEPT ![p] = IF @ = "running" THEN "exit0" ELSE @]
            /\ ridx' = ridx
    /\ UNCHANGED <<srev, sposts, bucket, dateNow, rbatch, rname, rres>>
    /\ UNCHANGED <<alertVars, imgVars, newsVars, vizVars, feedVars, startVars, artVars,
                   dirVars>>

StoreNext ==
    \/ StoreTick
    \/ \E p \in Runs : StoreSelect(p)
    \/ \E p \in Runs : StoreGenerate(p)
    \/ \E p \in Runs : StoreUpload(p)
    \/ \E p \in Runs : StoreUpdate(p)
    \/ \E p \in Runs : StoreNextPost(p)

-----------------------------------------------------------------------------
(* The feed: GET of rss.xml.js on the published posts                       *)

\* how many published posts the table holds at most when the feed is built
MaxFeedPosts == 3

\* context.site
Site == <<"https://", "x.example">>

\* the image_url values the pipelines leave: null after the insert of the
\* content pipeline, the public URL (visualizer.js 118, part_001 102) or the
\* file name (part_002 153) after the visualizer
FeedImageRefs == {JsNull, JsString(PublicUrl(FileName)), JsString(FileName)}

\* new URL(rel, site).toString() for a relative path without a leading slash
\* and a site without a path
UrlResolve(rel, site) == site \o <<"/">> \o rel

\* rss.xml.js 20-22; Undefined when image_url has no startsWith method and the
\* expression throws a TypeError
ItemImageUrl(ref) ==
    IF ref.t # "string" THEN Undefined
    ELSE IF StartsWithHttp(ref.s) THEN Some(ref.s)
    ELSE Some(UrlResolve(ref.s, Site))

FeedInit ==
    /\ feedStore \in UNION {[1..n -> FeedImageRefs] : n \in 0..MaxFeedPosts}
    /\ feedPosts = <<>>
    /\ feedError = FALSE
    /\ fpc = "fetch"
    /\ fidx = 0
    /\ items = <<>>
    /\ feedOut = Undefined
    /\ fthrew = FALSE

\* rss.xml.js 6 and getPosts (supabase.ts 36-49): the published posts, or no
\* posts when the query fails
FeedGetPosts ==
    /\ fpc = "fetch"
    /\ \/ feedPosts' = feedStore /\ feedError' = FALSE
       \/ feedPosts' = <<>> /\ feedError' = TRUE
    /\ fpc' = "map"
    /\ fidx' = 1
    /\ UNCHANGED <<feedStore, items, feedOut, fthrew>>
    /\ UNCHANGED <<alertVars, imgVars, newsVars, vizVars, startVars, artVars,
                   dirVars, storeVars>>

\* rss.xml.js 13-41: the callback of posts.map for one post; an exception in
\* it rejects the Promise.all and with it GET
FeedItem ==
    /\ fpc = "map"
    /\ fidx <= Len(feedPosts)
    /\ LET u == ItemImageUrl(feedPosts[fidx])
       IN  IF u = Undefined
           THEN fthrew' = TRUE /\ fpc' = "done" /\ UNCHANGED <<items, fidx>>
           ELSE /\ items' = Append(items, u[1])
                /\ fidx' = fidx + 1
                /\ UNCHANGED <<fthrew, fpc>>
    /\ UNCHANGED <<feedStore, feedPosts, feedError, feedOut>>
    /\ UNCHANGED <<alertVars, imgVars, newsVars, vizVars, startVars, artVars,
                   dirVars, storeVars>>

\* rss.xml.js 43-58
FeedEmit ==
    /\ fpc = "map"
    /\ fidx > Len(feedPosts)
    /\ feedOut' = Some(items)
    /\ fpc' = "done"
    /\ UNCHANGED <<feedStore, feedPosts, feedError, fidx, items, fthrew>>
    /\ UNCHANGED <<alertVars, imgVars, newsVars, vizVars, startVars, artVars,
                   dirVars, storeVars>>

FeedNext ==
    \/ FeedGetPosts
    \/ FeedItem
    \/ FeedEmit

-----------------------------------------------------------------------------
(* The start of the scripts: environment check and clients                  *)

Scripts ==
    {"newsroom.js", "part_000 (1)", "part_000 (2)", "visualizer.js", "part_001", "part_002"}

EnvNames ==
    {"GOOGLE_API_KEY", "PUBLIC_SUPABASE_URL", "SUPABASE_URL", "PUBLIC_SUPABASE_ANON_KEY",
     "SUPABASE_ANON_KEY", "SUPABASE_SERVICE_ROLE_KEY", "SUPABASE_KEY"}

\* a || b || ... over process.env: is one of the names set
AnyOf(e, names) == names \cap e # {}

\* the names the datastore URL is read from (newsroom.js 18, part_000 21 and
\* 250, visualizer.js 7, part_001 7, part_002 9)
UrlNames(sc) ==
    CASE sc \in {"newsroom.js", "part_000 (2)"} -> {"PUBLIC_SUPABASE_URL"}
      [] sc = "part_001" -> {"SUPABASE_URL"}
      [] OTHER -> {"PUBLIC_SUPABASE_URL", "SUPABASE_URL"}

\* the names the datastore key is read from (newsroom.js 18, part_000 22 and
\* 251, visualizer.js 8, part_001 8, part_002 10)
KeyNames(sc) ==
    CASE sc = "newsroom.js" -> {"PUBLIC_SUPABASE_ANON_KEY"}
      [] sc = "part_000 (1)" ->
            {"SUPABASE_SERVICE_ROLE_KEY", "PUBLIC_SUPABASE_ANON_KEY", "SUPABASE_ANON_KEY"}
      [] sc = "part_000 (2)" -> {"SUPABASE_SERVICE_ROLE_KEY", "PUBLIC_SUPABASE_ANON_KEY"}
      [] sc = "visualizer.js" ->
            {"SUPABASE_SERVICE_ROLE_KEY", "SUPABASE_KEY", "PUBLIC_SUPABASE_ANON_KEY"}
      [] sc = "part_001" -> {"SUPABASE_SERVICE_ROLE_KEY", "SUPABASE_KEY"}
      [] OTHER -> {"SUPABASE_SERVICE_ROLE_KEY", "SUPABASE_ANON_KEY",
                   "PUBLIC_SUPABASE_ANON_KEY", "SUPABASE_KEY"}

\* part_001 asks pollinations.ai without a key; the others use Gemini
NeedsGenerationKey(sc) == sc # "part_001"

\* the required values the script has no value for
MissingValues(sc, e) ==
    (IF NeedsGenerationKey(sc) /\ "GOOGLE_API_KEY" \notin e THEN {"generation key"} ELSE {})
    \cup (IF ~AnyOf(e, UrlNames(sc)) THEN {"datastore url"} ELSE {})
    \cup (IF ~AnyOf(e, KeyNames(sc)) THEN {"datastore key"} ELSE {})

AllValues == {"generation key", "datastore url", "datastore key"}

\* the values the check of the script finds missing and what it prints then:
\* newsroom.js 7-14 and part_000 237-244 test and print the three names of
\* REQUIRED_ENV, part_000 7-15, visualizer.js 7-14 and part_002 8-15 test the
\* values they read and print one fixed list; part_001 has no check
CheckFails(sc, e) ==
    CASE sc \in {"newsroom.js", "part_000 (2)"} ->
            {"GOOGLE_API_KEY", "PUBLIC_SUPABASE_URL", "PUBLIC_SUPABASE_ANON_KEY"} \ e # {}
      [] sc = "part_000 (1)" ->
            \/ "GOOGLE_API_KEY" \notin e
            \/ ~AnyOf(e, {"PUBLIC_SUPABASE_URL", "SUPABASE_URL"})
            \/ ~AnyOf(e, {"PUBLIC_SUPABASE_ANON_KEY", "SUPABASE_ANON_KEY"})
      [] sc = "part_001" -> FALSE
      [] OTHER -> MissingValues(sc, e) # {}

\* the values the printed message names
Reported(sc, e) ==
    IF sc \in {"newsroom.js", "part_000 (2)"}
    THEN (IF "GOOGLE_API_KEY" \notin e THEN {"generation key"} ELSE {})
         \cup (IF "PUBLIC_SUPABASE_URL" \notin e THEN {"datastore url"} ELSE {})
         \cup (IF "PUBLIC_SUPABASE_ANON_KEY" \notin e THEN {"datastore key"} ELSE {})
    ELSE AllValues

StartInit ==
    /\ script \in Scripts
    /\ env \in SUBSET EnvNames
    /\ spc = "check"
    /\ sreport = Undefined
    /\ sclients = {}
    /\ scalls = 0
    /\ sexit = "running"

\* the check before the clients (newsroom.js 7-14, part_000 7-15 and 237-244,
\* visualizer.js 7-14, part_002 8-15)
StartCheck ==
    /\ spc = "check"
    /\ IF CheckFails(script, env)
       THEN /\ sreport' = Some(Reported(script, env))
            /\ sexit' = "exit1"
            /\ spc' = "done"
       ELSE /\ spc' = "clients"
            /\ UNCHANGED <<sreport, sexit>>
    /\ UNCHANGED <<script, env, sclients, scalls>>
    /\ UNCHANGED <<alertVars, imgVars, newsVars, vizVars, feedVars, artVars,
                   dirVars, storeVars>>

\* the clients (newsroom.js 17-18, part_000 18-23 and 247-252, visualizer.js
\* 16-17, part_001 9, part_002 17-18); createClient with an undefined URL or
\* key is the library's business: it throws, which nothing catches, or it
\* returns a client
StartClients ==
    /\ spc = "clients"
    /\ IF AnyOf(env, UrlNames(script)) /\ AnyOf(env, KeyNames(script))
       THEN /\ sclients' = {"supabase"} \cup (IF NeedsGenerationKey(script) THEN {"genAI"} ELSE {})
            /\ spc' = "run"
            /\ sexit' = sexit
       ELSE \/ /\ sclients' = sclients /\ spc' = "done" /\ sexit' = "crash"
            \/ /\ sclients' = {"supabase"} \cup (IF NeedsGenerationKey(script) THEN {"genAI"} ELSE {})
               /\ spc' = "run" /\ sexit' = sexit
    /\ UNCHANGED <<script, env, sreport, scalls>>
    /\ UNCHANGED <<alertVars, imgVars, newsVars, vizVars, feedVars, artVars,
                   dirVars, storeVars>>

\* runNewsroom() / runVisualizer(): the first call to the datastore (the
\* history query of newsroom.js 90-99, the select of visualizer.js 133-138)
StartRun ==
    /\ spc = "run"
    /\ scalls' = scalls + 1
    /\ spc' = "done"
    /\ sexit' \in {"exit0", "exit1"}
    /\ UNCHANGED <<script, env, sreport, sclients>>
    /\ UNCHANGED <<alertVars, imgVars, newsVars, vizVars, feedVars, artVars,
                   dirVars, storeVars>>

StartNext ==
    \/ StartCheck
    \/ StartClients
    \/ StartRun

-----------------------------------------------------------------------------
(* Specifications: each component on its own, the others at rest            *)

AlertIdle ==
    /\ alert = Undefined /\ hdr = <<>> /\ parts = <<>> /\ apc = "idle"
    /\ content = <<>> /\ integrity = Undefined /\ factCheck = Undefined
    /\ action = Undefined /\ athrew = FALSE

ImgIdle ==
    /\ post = Null /\ supabaseUrl = Undefined /\ ipc = "idle"
    /\ actualHost = Undefined /\ ires = Undefined /\ ithrew = FALSE

NewsIdle ==
    /\ rev = "newsroom.js" /\ argWriter = JsUndefined /\ isDryRun = FALSE
    /\ npc = "idle" /\ writerKey = "" /\ history = [data |-> <<>>, error |-> FALSE]
    /\ finalData = Undefined /\ calls = <<>> /\ table = <<>> /\ nexit = "running"
    /\ nrun = 1 /\ table0 = <<>> /\ runTime = NoTime /\ genFailed = "none"
    /\ manualTopic = FALSE /\ writerPrompt = [memory |-> <<>>, avoid |-> <<>>]

VizIdle ==
    /\ vrev = "visualizer.js" /\ posts = <<>> /\ clock = 1 /\ vrun = 1 /\ vpc = "idle"
    /\ batch = <<>> /\ bidx = 0 /\ selCount = 0 /\ customPrompt = "none"
    /\ gmodel = 1 /\ gattempt = 1 /\ results = <<>> /\ uploads = <<>> /\ updates = <<>>
    /\ vexit = "running" /\ cooldowns = <<>>

FeedIdle ==
    /\ feedStore = <<>> /\ feedPosts = <<>> /\ feedError = FALSE /\ fpc = "idle"
    /\ fidx = 0 /\ items = <<>> /\ feedOut = Undefined /\ fthrew = FALSE

StartIdle ==
    /\ script = "newsroom.js" /\ env = {} /\ spc = "idle" /\ sreport = Undefined
    /\ sclients = {} /\ scalls = 0 /\ sexit = "running"

ArtIdle ==
    /\ prompt = <<>> /\ gpc = "idle" /\ model = 1 /\ attempt = 1 /\ lastError = "null"
    /\ requests = <<>> /\ delays = <<>> /\ gres = "none"

DirIdle ==
    /\ dirRev = "visualizer.js" /\ dirPost = [summary |-> JsNull, ai_writer |-> JsNull]
    /\ dpc = "idle" /\ directorFailed = FALSE /\ dirPrompt = Undefined
    /\ sentPrompt = Undefined /\ failedStep = "none"

StoreIdle ==
    /\ srev = "visualizer.js" /\ sposts = <<>> /\ bucket = {} /\ dateNow = 1
    /\ rpc = <<>> /\ rbatch = <<>> /\ ridx = <<>> /\ rname = <<>> /\ rres = <<>>
    /\ rexit = <<>>

OthersIdle == DirIdle /\ StoreIdle

InitAlert == AlertInit /\ ImgIdle /\ NewsIdle /\ VizIdle /\ FeedIdle /\ StartIdle /\ ArtIdle
    /\ OthersIdle

InitImage == ImgInit /\ AlertIdle /\ NewsIdle /\ VizIdle /\ FeedIdle /\ StartIdle /\ ArtIdle
    /\ OthersIdle

InitNewsroom == NewsInit /\ AlertIdle /\ ImgIdle /\ VizIdle /\ FeedIdle /\ StartIdle /\ ArtIdle
    /\ OthersIdle

InitVisualizer == VizInit /\ AlertIdle /\ ImgIdle /\ NewsIdle /\ FeedIdle /\ StartIdle /\ ArtIdle
    /\ OthersIdle

InitFeed == FeedInit /\ AlertIdle /\ ImgIdle /\ NewsIdle /\ VizIdle /\ StartIdle /\ ArtIdle
    /\ OthersIdle

InitStart == StartInit /\ AlertIdle /\ ImgIdle /\ NewsIdle /\ VizIdle /\ FeedIdle /\ ArtIdle
    /\ OthersIdle

InitArtifact ==
    ArtInit /\ AlertIdle /\ ImgIdle /\ NewsIdle /\ VizIdle /\ FeedIdle /\ StartIdle
    /\ OthersIdle

InitDirector ==
    DirInit /\ AlertIdle /\ ImgIdle /\ NewsIdle /\ VizIdle /\ FeedIdle /\ StartIdle
    /\ ArtIdle /\ StoreIdle

InitStore ==
    StoreInit /\ AlertIdle /\ ImgIdle /\ NewsIdle /\ VizIdle /\ FeedIdle /\ StartIdle
    /\ ArtIdle /\ DirIdle

Init ==
    \/ InitAlert \/ InitImage \/ InitNewsroom \/ InitVisualizer \/ InitFeed \/ InitStart
    \/ InitArtifact \/ InitDirector \/ InitStore

Next ==
    \/ AlertNext \/ ImgNext \/ NewsNext \/ VizNext \/ FeedNext \/ StartNext \/ ArtNext
    \/ DirNext \/ StoreNext

Spec == Init /\ [][Next]_vars

SpecAlert == InitAlert /\ [][AlertNext]_vars

SpecImage == InitImage /\ [][ImgNext]_vars

SpecNewsroom == InitNewsroom /\ [][NewsNext]_vars

SpecVisualizer == InitVisualizer /\ [][VizNext]_vars

SpecFeed == InitFeed /\ [][FeedNext]_vars

SpecStart == InitStart /\ [][StartNext]_vars

SpecArtifact == InitArtifact /\ [][ArtNext]_vars

SpecDirector == InitDirector /\ [][DirNext]_vars

SpecStore == InitStore /\ [][StoreNext]_vars

\* every fetch call completes and every timer fires
SpecArtifactFair == SpecArtifact /\ WF_vars(ArtNext)

-----------------------------------------------------------------------------
(* Claims about parseSystemAlert                                            *)

AlertDone == apc = "done"

AlertIsText == alert # Undefined /\ alert[1] # <<>>

\* the header forms the pattern of line 63 removes
StrippedHeaders == {NoHeader, PlainHeader, VersionHeader, LowerHeader}

HasKind(k) == \E i \in 1..Len(parts) : parts[i].kind = k

\* no segment of the argument carries a label
NoLabels == \A i \in 1..Len(parts) : parts[i].kind = "text"

\* a closing bracket, blanks, an opening bracket
BracketBoundary(t) ==
    \E k \in 1..Len(t) :
        /\ t[k] = "]"
        /\ SkipSpaces(t, k + 1) <= Len(t)
        /\ t[SkipSpaces(t, k + 1)] = "["

\* what is left of a label-free argument once its header is removed
LabelFreeRest ==
    Trim(IF hdr \in StrippedHeaders THEN Body(parts) ELSE Compose(hdr, parts))

\* C1 as stated: a non-empty argument without any recognized label yields
\* integrity, factCheck and action all undefined, and the call does not throw.
C1_AllUndefined ==
    (AlertDone /\ AlertIsText /\ NoLabels /\ hdr \in StrippedHeaders) =>
        /\ ~athrew
        /\ integrity = Undefined
        /\ factCheck = Undefined
        /\ action = Undefined

\* C1 as amended: a non-empty argument without any recognized label does not
\* throw and yields integrity and factCheck undefined; action is the text left
\* after the header is removed, trimmed, and is undefined only when that text
\* holds nothing but dots, commas and blanks.
C1_LabelFree ==
    (AlertDone /\ AlertIsText /\ NoLabels) =>
        /\ ~athrew
        /\ integrity = Undefined
        /\ factCheck = Undefined
        /\ action = IF \E i \in 1..Len(LabelFreeRest) : ~IsPunct(LabelFreeRest[i])
                    THEN Some(LabelFreeRest) ELSE Undefined

C1_Witness ==
    /\ AlertDone /\ AlertIsText /\ NoLabels
    /\ hdr = PlainHeader
    /\ Len(parts) = 2
    /\ action = Some(Body(parts))

\* C2 as stated: whenever an integrity label is followed by a number n, the
\* returned integrity equals n, whatever precedes or follows it (87 for every
\* argument that contains INTEGRITY SCAN: 87%).
C2_EveryIntegrityLabel ==
    AlertDone =>
        \A i \in 1..Len(parts) :
            parts[i].kind = "integrity" => integrity = Some(parts[i].n)

\* C2 as amended: the returned integrity equals the number that follows the
\* first integrity label that is followed by a number.
C2_FirstIntegrityLabel ==
    (AlertDone /\ HasKind("integrity")) =>
        LET first == SetMin({i \in 1..Len(parts) : parts[i].kind = "integrity"})
        IN  integrity = Some(parts[first].n)

C2_Witness ==
    /\ AlertDone
    /\ Len(parts) = 3
    /\ parts[1].kind = "fact"
    /\ parts[2].kind = "integrity" /\ parts[2].n = <<125, 1>>
    /\ parts[3].kind = "integrity" /\ parts[3].n = <<87, 0>>
    /\ integrity = Some(<<125, 1>>)

\* the argument is INTEGRITY SCAN: n%, FACT-CHECK: f and ACTION: a in some order,
\* with no header or one the parser documents
RoundTripInput ==
    /\ hdr \in StrippedHeaders
    /\ Len(parts) = 3
    /\ \E i, j, k \in 1..3 :
          /\ parts[i].kind = "integrity" /\ parts[i].lab = <<"INTEGRITY", " ", "SCAN:", " ">>
          /\ parts[j].kind = "fact"
          /\ parts[k].kind = "action" /\ parts[k].lab = <<"ACTION:", " ">>

PartOfKind(k) == parts[CHOOSE i \in 1..Len(parts) : parts[i].kind = k]

Recovered ==
    /\ ~athrew
    /\ integrity = Some(PartOfKind("integrity").n)
    /\ factCheck = Some(PartOfKind("fact").val)
    /\ action = Some(PartOfKind("action").val)

-----------------------------------------------------------------------------
(* Claims about getPostImageUrl                                             *)

ImgDone == ipc = "done"

\* the post is a record whose image_url is a string
HasImageText == post # Null /\ post[1].image_url.t = "string"

ImageText == post[1].image_url.s

\* a storage base is configured and is not the placeholder
BaseConfigured ==
    /\ supabaseUrl # Undefined
    /\ supabaseUrl[1] # <<>>
    /\ \A i \in 1..Len(supabaseUrl[1]) : supabaseUrl[1][i] # placeholderHost

\* the configured base is a URL: a scheme and a host
BaseIsUrl ==
    /\ Len(supabaseUrl[1]) >= 2
    /\ supabaseUrl[1][1] \in Schemes
    /\ supabaseUrl[1][2] \in Hosts

Occurrences(text, w) == {i \in 1..Len(text) : text[i] = w}

\* C5: the call never throws and always returns a non-empty string, for every
\* post argument and every value of the configured storage base.
C5_NeverFails ==
    /\ ~ithrew
    /\ ImgDone => (ires # Undefined /\ ires[1] # <<>>)

\* C6: an image_url that starts with http:// or https:// and does not hold the
\* placeholder host is returned unchanged, whatever the storage base and the
\* title are.
C6_AbsoluteUrlUnchanged ==
    (/\ ImgDone /\ HasImageText
     /\ Len(ImageText) >= 1 /\ ImageText[1] \in Schemes
     /\ Occurrences(ImageText, placeholderHost) = {})
        => (~ithrew /\ ires = Some(ImageText))

\* C7: a bare filename and a configured non-placeholder base, with or without a
\* trailing slash, yield {base}/storage/v1/object/public/blog-images/{filename}
\* with one slash between base and path.
C7_BareFilename ==
    (ImgDone /\ HasImageText /\ IsFilename(ImageText) /\ BaseConfigured)
        => LET b == supabaseUrl[1]
               base == IF b[Len(b)] = "/" THEN SubSeq(b, 1, Len(b) - 1) ELSE b
           IN  /\ ~ithrew
               /\ ires = Some(base \o <<"/", "storage/v1/object/public/blog-images", "/">>
                                   \o ImageText)

\* C8: for an absent post the function returns the one fixed generic fallback
\* URL, whatever the storage base configuration is.
C8_AbsentPost ==
    (ImgDone /\ post = Null)
        => /\ ~ithrew
           /\ ires = Some(<<"https://", "image.pollinations.ai", "/", "prompt", "/",
                            "static%20noise%20CRT%20screen%20glitch%20cyberpunk%20aesthetic",
                            "?width=800&height=600&nologo=true">>)

C8_Witness ==
    /\ ImgDone
    /\ post = Null
    /\ supabaseUrl = Some(<<"not", " ", "a", " ", "url">>)
    /\ ires = Some(defaultFallback)

\* C9 as stated: every image_url that holds the placeholder host, with a real
\* base configured, is returned with the placeholder host replaced by the host
\* of the base, and the returned URL no longer holds the placeholder host.
C9_PlaceholderReplaced ==
    (/\ ImgDone /\ HasImageText
     /\ Occurrences(ImageText, placeholderHost) # {}
     /\ BaseConfigured /\ BaseIsUrl)
        => LET i == SetMin(Occurrences(ImageText, placeholderHost))
           IN  /\ ~ithrew
               /\ ires = Some([ImageText EXCEPT ![i] = supabaseUrl[1][2]])
               /\ Occurrences(ires[1], placeholderHost) = {}

\* C9 as amended: an image_url that starts with http and holds the placeholder
\* host, with a real base configured, is returned with the first occurrence of
\* the placeholder host replaced by the host of the base; the returned URL holds
\* no placeholder host when image_url held it once.
C9_FirstOccurrenceReplaced ==
    (/\ ImgDone /\ HasImageText
     /\ Occurrences(ImageText, placeholderHost) # {}
     /\ ImageText[1] \in Schemes
     /\ BaseConfigured /\ BaseIsUrl)
        => LET i == SetMin(Occurrences(ImageText, placeholderHost))
           IN  /\ ~ithrew
               /\ ires = Some([ImageText EXCEPT ![i] = supabaseUrl[1][2]])
               /\ Cardinality(Occurrences(ImageText, placeholderHost)) = 1
                     => Occurrences(ires[1], placeholderHost) = {}

C9_Witness ==
    /\ ImgDone
    /\ HasImageText
    /\ ImageText = <<"https://", placeholderHost, "/", "storage", "/", "a", ".png">>
    /\ supabaseUrl = Some(<<"https://", "abc.supabase.co", "/">>)
    /\ ires = Some(<<"https://", "abc.supabase.co", "/", "storage", "/", "a", ".png">>)

-----------------------------------------------------------------------------
(* Claims about runNewsroom                                                 *)

NewsDone == npc = "done"

Called(c) == \E i \in 1..Len(calls) : calls[i] = c

\* --writer was given and is no key of the persona registry
UnknownWriter ==
    \/ argWriter.t \in {"number", "boolean"}
    \/ /\ argWriter.t = "string" /\ argWriter.s # <<>>
       /\ ToUpperCase(argWriter.s[1]) \notin PersonaKeys(rev)

\* C10: for every --writer value that is no registry key after upper-casing,
\* a number or a bare flag included, the run makes no generation call and no
\* insert call and ends without an uncaught exception.
C10_UnknownWriter ==
    (NewsDone /\ UnknownWriter)
        => /\ ~Called("draft") /\ ~Called("edit") /\ ~Called("insert")
           /\ nexit # "crash"

\* --writer is absent or names a key of the persona registry
ValidWriter ==
    /\ WriterKeyOf(rev, argWriter) # Undefined
    /\ WriterKeyOf(rev, argWriter)[1] \in PersonaKeys(rev)

\* the fields the posts table needs of a published post
RequiredFields == {"title", "slug", "content"}

\* the editorial call answered, and its answer is no JSON text or a JSON value
\* without one of the required fields
IncompleteResponse ==
    /\ Called("edit")
    /\ genFailed = "none"
    /\ \/ finalData = Undefined
       \/ finalData[1].t # "object"
       \/ ~(RequiredFields \subseteq finalData[1].f)

\* C11: in every run with the dry-run flag set and a valid writer key no insert
\* call is made, whatever the two generation calls answer, and the posts table
\* is the one the run started with.
C11_DryRunInsertsNothing ==
    (isDryRun /\ ValidWriter) => (~Called("insert") /\ table = table0)

\* a dry run on a table that holds a row, whose editorial answer was parsed
C11_Witness ==
    /\ NewsDone /\ isDryRun /\ ValidWriter
    /\ finalData # Undefined /\ RequiredFields \subseteq finalData[1].f
    /\ table0 # <<>>

\* C12: when the editorial response, the code fences stripped, is no JSON text,
\* or is a JSON value without one of the required fields (title, slug,
\* content), the run ends before any insert call.
C12_IncompleteNeverInserted ==
    IncompleteResponse => ~Called("insert")

\* C13: every row the pipeline inserted with status = published has a title, a
\* slug and a content; no half-formed post is persisted.
C13_PublishedRowsComplete ==
    \A i \in 1..Len(table) :
        table[i].status = "published" => RequiredFields \subseteq table[i].f

\* C20: when the draft call or the editorial call fails, the run makes no
\* insert and leaves the table as it was; when the draft call fails, the
\* editorial call is not made.
C20_GenerationFailureInsertsNothing ==
    /\ genFailed # "none" => (~Called("insert") /\ table = table0)
    /\ genFailed = "draft" => ~Called("edit")

\* a run that was to insert, whose draft call failed
C20_Witness ==
    /\ NewsDone /\ ~isDryRun /\ ValidWriter
    /\ genFailed = "draft" /\ Called("draft")

-----------------------------------------------------------------------------
(* Claims about runVisualizer                                               *)

VizDone == vpc = "done"

\* the post of the batch in work is inside generateAndUploadImage
VizInWork == vpc \in {"director", "generate", "upload", "update"}

UpdatesFor(i) == {j \in 1..Len(updates) : updates[j].id = i}

UploadedFor(i) == \E j \in 1..Len(uploads) : uploads[j] = i

\* the position of post i in the batch
PositionOf(i) == CHOOSE k \in 1..Len(batch) : batch[k] = i

\* C14: for every selected post whose steps all succeeded the run issued
\* exactly one update call, keyed by the id of the post, that sets image_url
\* to a non-null value; the call changed no other column of the post, and no
\* other post: every reference a row holds was made for that row.
C14_OneUpdatePerVisualizedPost ==
    /\ \A k \in 1..Len(results) :
          results[k] = "ok"
              => /\ Cardinality(UpdatesFor(batch[k])) = 1
                 /\ \A j \in UpdatesFor(batch[k]) :
                       /\ updates[j].set # Undefined
                       /\ posts[batch[k]].image_url = updates[j].set
    /\ \A i \in 1..Len(posts) :
          /\ posts[i].cols = "inserted"
          /\ posts[i].id = i
          /\ (posts[i].image_url # Undefined /\ posts[i].image_url # PayloadReference)
                 => posts[i].image_url[1].of = i

\* the second post of a batch has just been updated, its prompt came from the
\* director, and the table holds other rows
C14_Witness ==
    /\ vpc = "next" /\ bidx = 2 /\ Len(results) = 2 /\ results[2] = "ok"
    /\ customPrompt = "director"
    /\ Len(posts) >= 3

\* C15: a post whose image generation failed on every attempt gets no upload
\* and no update call, its image_url is still null, and it passes the filter
\* of the next select.
C15_FailedGenerationLeavesPostPending ==
    \A k \in 1..Len(results) :
        results[k] = "generation"
            => /\ ~UploadedFor(batch[k])
               /\ UpdatesFor(batch[k]) = {}
               /\ posts[batch[k]].image_url = Undefined
               /\ batch[k] \in Pending(posts)

\* a run of visualizer.js is over: the first post of its batch failed in
\* generation, a later one was visualized
C15_Witness ==
    /\ VizDone /\ vrev = "visualizer.js"
    /\ Len(results) >= 2 /\ results[1] = "generation" /\ results[2] = "ok"

\* C16: a run handles only posts whose image_url was null when the select ran,
\* at most 3 of them (1 in part_001), the newest created_at first and in that
\* order; a post with an image_url is never passed to generation.
C16_BatchOfPendingNewestFirst ==
    /\ Len(batch) <= (IF vrev = "part_001" THEN 1 ELSE 3)
    /\ NewestFirst(posts, batch)
    /\ \A j \in 1..selCount :
          (posts[j].image_url = Undefined /\ \A k \in 1..Len(batch) : batch[k] # j)
              => /\ Len(batch) = (IF vrev = "part_001" THEN 1 ELSE 3)
                 /\ \A k \in 1..Len(batch) : posts[batch[k]].created_at >= posts[j].created_at
    /\ \A k \in 1..Len(batch) :
          \/ posts[batch[k]].image_url = Undefined
          \/ /\ k <= Len(results) /\ results[k] = "ok"
             /\ posts[batch[k]].image_url = Reference(vrev, batch[k], vrun)
    /\ VizInWork => posts[batch[bidx]].image_url = Undefined
    /\ Len(results) <= bidx
    /\ \A a, b \in 1..Len(uploads) : a < b => PositionOf(uploads[a]) < PositionOf(uploads[b])

\* a run with the limit 3 found four pending posts and handled its three
C16_Witness ==
    /\ VizDone /\ vrev # "part_001"
    /\ Len(batch) = 3 /\ Len(results) = 3
    /\ \E j \in 1..selCount :
          posts[j].image_url = Undefined /\ \A k \in 1..Len(batch) : batch[k] # j

\* C17: once the image_url of a post is non-null no step changes the row: no
\* select returns the post, no upload and no update is made for it.
C17_SetOnce ==
    [][\A i \in 1..Len(posts) :
          posts[i].image_url # Undefined
              => /\ posts'[i] = posts[i]
                 /\ (vpc = "select" => \A k \in 1..Len(batch') : batch'[k] # i)
                 /\ (Len(uploads') > Len(uploads) => uploads'[Len(uploads')] # i)
                 /\ (Len(updates') > Len(updates) => updates'[Len(updates')].id # i)]_vars

\* a second run is over and has visualized a post; the table holds a post the
\* first run visualized and a post that was inserted with an image_url
C17_Witness ==
    /\ VizDone /\ vrun = 2
    /\ \E k \in 1..Len(results) : results[k] = "ok"
    /\ \E i \in 1..Len(posts) :
          posts[i].image_url # Undefined /\ posts[i].image_url[1].at = 1
    /\ \E i \in 1..Len(posts) : posts[i].image_url = PayloadReference

-----------------------------------------------------------------------------
(* Claims about the feed and about the start of the scripts                 *)

\* where the image of a post is: the reference itself when it is a URL, the
\* public URL of the uploaded object when it is a file name
ImageLocation(ref) == IF StartsWithHttp(ref.s) THEN ref.s ELSE PublicUrl(ref.s)

\* C18: for every set of published posts the pipelines can leave, posts with
\* a null image reference and posts with a bare file name included, the feed
\* build completes and emits one item per published post, whose image URL is
\* an absolute URL, the location of the image when the post has one.
C18_FeedBuilds ==
    (fpc = "done" /\ ~feedError)
        => /\ ~fthrew
           /\ feedOut # Undefined
           /\ Len(feedOut[1]) = Len(feedStore)
           /\ \A i \in 1..Len(feedStore) :
                 /\ UrlValid(feedOut[1][i])
                 /\ feedStore[i].t = "string" => feedOut[1][i] = ImageLocation(feedStore[i])

\* C19: when a required environment value is missing at the start of a
\* script, the process prints a message that names it and ends with a
\* non-zero exit code, and no backend client is constructed and no backend
\* call is made.
C19_MissingEnvIsFatal ==
    (MissingValues(script, env) # {} /\ spc # "idle")
        => /\ sclients = {}
           /\ scalls = 0
           /\ spc = "done"
                 => /\ sexit = "exit1"
                    /\ sreport # Undefined
                    /\ MissingValues(script, env) \subseteq sreport[1]

-----------------------------------------------------------------------------
(* More claims about runNewsroom                                            *)

HistoryFailed == history.error

\* C21: when the history query returns an error the run goes on: the draft
\* call is made with a prompt that holds no title and no content of an earlier
\* post, the editorial call follows a draft that succeeded, and the insert a
\* parsed answer unless the run is a dry run.
C21_HistoryErrorNotFatal ==
    HistoryFailed
        => /\ npc # "done" \/ Called("draft")
           /\ Called("draft") => writerPrompt = NoPrompt
           /\ (NewsDone /\ genFailed # "draft") => Called("edit")
           /\ (NewsDone /\ genFailed = "none" /\ finalData # Undefined /\ ~isDryRun)
                 => Called("insert")

\* a run without a topic whose history query failed has inserted its post
C21_Witness ==
    /\ NewsDone /\ HistoryFailed /\ ~manualTopic
    /\ Called("insert") /\ Len(table) > Len(table0)

-----------------------------------------------------------------------------
(* More claims about parseSystemAlert                                       *)

\* the text of a header is in the field
HoldsHeaderText(field) ==
    field # Undefined /\ \E i \in 1..Len(field[1]) : Upper(field[1][i]) = "SYSTEM ALERT"

\* C22: for every argument that begins with a bracketed SYSTEM ALERT header,
\* in any letter case, with or without the SENTINEL part, the form without a
\* version that the editorial prompt prescribes included, the header is
\* stripped and its text is in none of the returned fields.
C22_HeaderStripped ==
    (AlertDone /\ hdr # NoHeader)
        => ~HoldsHeaderText(factCheck) /\ ~HoldsHeaderText(action)

\* the label tokens the extractor recognizes, in upper case
LabelTokens == {"FACT-CHECK:", "ACTION:", "NOTE:", "SCAN:"}

HoldsLabel(field) ==
    field # Undefined /\ \E i \in 1..Len(field[1]) : Upper(field[1][i]) \in LabelTokens

\* the values of the segments of kind k the argument was composed from
ValuesOf(k) == {parts[i].val : i \in {j \in 1..Len(parts) : parts[j].kind = k}}

\* C23: each free-text field is the trimmed text after its label up to the
\* next recognized label or the end of the string: factCheck and action hold
\* no label token and factCheck is the text of a FACT-CHECK segment.
C23_FieldsEndAtNextLabel ==
    (AlertDone /\ hdr \in StrippedHeaders /\ ~HasKind("nonumber"))
        => /\ ~HoldsLabel(factCheck)
           /\ ~HoldsLabel(action)
           /\ factCheck # Undefined => factCheck[1] \in ValuesOf("fact")

\* the leftover text holds a character that is no whitespace
HoldsNonWhitespace(s) == \E i \in 1..Len(s) : ~IsSpace(s[i])

\* the leftover text holds a character that is no dot, comma or whitespace
HoldsMoreThanPunct(s) == \E i \in 1..Len(s) : ~IsPunct(s[i])

\* the action with the leftover text joined to it by one blank
Appended(act, c) == Some(act[1] \o <<" ">> \o Trim(c))

\* C24 as stated: leftover text that holds a character that is no whitespace
\* is appended to the action, separated by one space, or becomes the action if
\* the action is unset; otherwise the action is unchanged.
C24_LeftoverAppended ==
    [][apc = "fallback" =>
        action' = IF HoldsNonWhitespace(content)
                  THEN IF action = Undefined THEN Some(Trim(content))
                       ELSE Appended(action, content)
                  ELSE action]_vars

\* C24: leftover text that holds more than dots, commas and whitespace becomes
\* the action when the action is unset or the empty string and is appended to
\* it after one space otherwise; leftover text of dots, commas and whitespace
\* only leaves the action unchanged.
C24_LeftoverAppendedUnlessPunct ==
    [][apc = "fallback" =>
        action' = IF HoldsMoreThanPunct(content)
                  THEN IF action = Undefined \/ action[1] = <<>>
                       THEN Some(Trim(content))
                       ELSE Appended(action, content)
                  ELSE action]_vars

\* text before an ACTION label was left over and has been appended to the action
C24_Witness ==
    /\ AlertDone /\ HoldsMoreThanPunct(content)
    /\ \E i \in 1..Len(parts) : parts[i].kind = "action" /\ parts[i].val # <<>>
    /\ action = Some(<<"ok", " ", "ok">>)

-----------------------------------------------------------------------------
(* More claims about getPostImageUrl                                        *)

\* no stored-URL tier applies to the post: image_url is null, empty or no string,
\* or a string without a scheme that is no bare filename, or a bare filename
\* while no real storage base is configured
NoStoredTier ==
    /\ post # Null
    /\ \/ ~HasImageText
       \/ ImageText = <<>>
       \/ /\ ImageText[1] \notin Schemes
          /\ ~IsFilename(ImageText)
       \/ /\ IsFilename(ImageText)
          /\ ~RealBase(supabaseUrl)

\* C25: for every post that is not null and to which no stored-URL tier
\* applies, the function returns the generative-service URL that encodes the
\* style prefix and the title, with width and height 1024 and model flux.
C25_GenerativeFallback ==
    (ImgDone /\ NoStoredTier)
        => (~ithrew /\ ires = Some(GenerativeUrl(post[1].title)))

\* the configured base is the project the visualizer uploads to
BaseIsStorage == supabaseUrl # Undefined /\ CleanBaseUrl(supabaseUrl[1]) = StorageBase

\* C26: for every post with a URL-safe slug whose image reference was written
\* by a visualizer revision (the public URL in visualizer.js and part_001, the
\* file name in part_002), getPostImageUrl with the storage base configured
\* returns the storage URL of the uploaded object, never the generative URL.
C26_WrittenReferenceResolves ==
    \A r \in VizRevisions, g \in Slugs :
        (ImgDone /\ HasImageText /\ ImageText = WrittenReference(r, g) /\ BaseIsStorage)
            => (~ithrew /\ ires = Some(PublicUrl(UploadedName(g))))

-----------------------------------------------------------------------------
(* More claims about runNewsroom                                            *)

\* the backend calls of a run, in the order the pipeline makes them
CallOrder == <<"history", "draft", "edit", "insert">>

IsPrefix(a, b) == Len(a) <= Len(b) /\ a = SubSeq(b, 1, Len(a))

\* C27: in every run the backend calls occur in the order history query, draft
\* generation, editorial generation, insert, after the persona lookup has found
\* the writer, each at most once and none revisited; an insert is issued only
\* after both generation calls succeeded and the JSON parsed, and a run adds at
\* most one row.
C27_LinearCallOrder ==
    /\ IsPrefix(calls, CallOrder)
    /\ calls # <<>> => writerKey \in PersonaKeys(rev)
    /\ (npc = "insert" \/ Called("insert"))
          => /\ Called("draft") /\ Called("edit")
             /\ genFailed = "none"
             /\ finalData # Undefined
    /\ Len(table) <= Len(table0) + 1
    /\ Len(table) > Len(table0) => Called("insert")

\* a run has made all four calls and added its row
C27_Witness ==
    /\ NewsDone
    /\ calls = CallOrder
    /\ Len(table) = Len(table0) + 1

\* the row this run has inserted
InsertedRow == table[Len(table)]

\* C28 as stated: the inserted record has status published and a published_at
\* that is 7 days after the run time, whatever the editorial JSON contained.
C28_SevenDaysAfterRun ==
    Len(table) > Len(table0)
        => /\ InsertedRow.status = "published"
           /\ InsertedRow.published_at = Some(Time(runTime.day + 7, runTime.hour))

\* C28: the inserted record has status published and a published_at that is 7
\* days after the run time in newsroom.js and the second revision of part_000,
\* and 00:00 UTC of the day 7 days after the run time in the first revision of
\* part_000, whatever status or published_at the editorial JSON contained.
C28_PipelineValuesOverride ==
    Len(table) > Len(table0)
        => /\ InsertedRow.status = "published"
           /\ InsertedRow.published_at =
                 Some(Time(runTime.day + 7, IF rev = "part_000 (1)" THEN 0 ELSE runTime.hour))

\* a run whose editorial JSON held its own status and published_at has inserted
\* its record
C28_Witness ==
    /\ NewsDone /\ Len(table) > Len(table0)
    /\ finalData # Undefined
    /\ finalData[1].status = "draft"
    /\ finalData[1].published_at = Some(OldDate)
    /\ runTime.hour # 0

-----------------------------------------------------------------------------
(* Claims about generateArtifact                                            *)

ArtDone == gpc = "done"

\* the backend and the attempt of the i-th request when the backends are tried
\* in order with maxRetries attempts each
BackendOf(i) == models[((i - 1) \div maxRetries) + 1]

AttemptOf(i) == ((i - 1) % maxRetries) + 1

AllRequests == maxRetries * Len(models)

\* the requests are issued in the order flux, turbo, default, three attempts
\* at most with each
InBackendOrder ==
    /\ Len(requests) <= AllRequests
    /\ \A i \in 1..Len(requests) :
          requests[i].model = BackendOf(i) /\ requests[i].attempt = AttemptOf(i)

\* C29 as stated: requests in backend order, at most 3 attempts per backend,
\* the bytes of the first successful response are returned and no request
\* follows it, and the function throws only after exactly 9 failed requests.
C29_ThrowsOnlyAfterNine ==
    /\ InBackendOrder
    /\ \A i \in 1..(Len(requests) - 1) : requests[i].outcome \notin {"bytes", "body"}
    /\ gres = "bytes" => requests[Len(requests)].outcome = "bytes"
    /\ gres \in {"Error", "URIError"}
          => /\ Len(requests) = AllRequests
             /\ \A i \in 1..Len(requests) : requests[i].outcome # "bytes"

C29_Safety ==
    /\ InBackendOrder
    /\ \A i \in 1..(Len(requests) - 1) : requests[i].outcome # "bytes"
    /\ gres = "bytes" => (ArtDone /\ requests[Len(requests)].outcome = "bytes")
    /\ ArtDone => gres \in {"bytes", "Error", "URIError"}
    /\ gres = "Error"
          => /\ Len(requests) = AllRequests
             /\ \A i \in 1..Len(requests) : requests[i].outcome # "bytes"
    /\ gres = "URIError" => (requests = <<>> /\ CleanPrompt(prompt) = Undefined)

\* C29: requests are issued in the order flux, turbo, default with at most 3
\* attempts per backend; the function returns the bytes of the first ok response
\* whose body could be read and issues no request after it; a prompt that cannot
\* be URI-encoded makes it throw before the first request, and otherwise it
\* throws only after exactly 9 failed requests; when every request completes it
\* terminates, with at most 9 requests.
C29_OrderedBoundedRequests == []C29_Safety /\ <>ArtDone

\* the bytes came from the second attempt with the second backend
C29_Witness ==
    /\ ArtDone /\ gres = "bytes"
    /\ Len(requests) = maxRetries + 2
    /\ requests[Len(requests)].model = "turbo"

\* the waits made after request i
WaitsOf(i) == {k \in 1..Len(delays) : delays[k].after = i}

\* C30: after a failed attempt k < 3 with a backend the function waits 2^k
\* seconds (2 s, then 4 s) before the next attempt with that backend; the
\* attempt counter restarts at 1 with each backend, and no wait follows the
\* third attempt before the next backend is tried or the function fails.
C30_ExponentialBackoff ==
    /\ \A k \in 1..Len(delays) :
          /\ delays[k].after \in 1..Len(requests)
          /\ LET r == requests[delays[k].after]
             IN  /\ r.outcome # "bytes"
                 /\ r.attempt < 3
                 /\ delays[k].ms = IF r.attempt = 1 THEN 2000 ELSE 4000
    /\ \A i \in 1..Len(requests) :
          /\ Cardinality(WaitsOf(i)) <= 1
          /\ (i < Len(requests) /\ requests[i].attempt < 3) => WaitsOf(i) # {}
          /\ (i > 1 /\ requests[i].model # requests[i - 1].model)
                => /\ requests[i].attempt = 1
                   /\ requests[i - 1].attempt = 3
          /\ (i > 1 /\ requests[i].model = requests[i - 1].model)
                => requests[i].attempt = requests[i - 1].attempt + 1
    /\ requests # <<>> => requests[1].attempt = 1

\* every backend has failed three times: two waits with each, none after the
\* third attempt
C30_Witness ==
    /\ ArtDone /\ gres = "Error"
    /\ Len(delays) = 2 * Len(models)
    /\ WaitsOf(Len(requests)) = {}

-----------------------------------------------------------------------------
(* More claims about the visualization pipeline                             *)

\* the style of the persona of the post, the generic style for any other writer
PersonaStyle ==
    LET w == dirPost.ai_writer
    IN  IF w.t = "string" /\ \E k \in StyledWriters : w.s = <<k>>
        THEN writerStyles(w.s[1])
        ELSE "Standard cyberpunk neon palette (green, purple, cyan, deep black)."

NameIn(ref) == ObjectName(ref[1].of, ref[1].at)

\* every reference the table holds names an object of the bucket made for that
\* post, a run that is at its update has uploaded the object it is about to
\* link, and that after a generation that succeeded
ReferencesNameObjects ==
    /\ \A i \in 1..Len(sposts) :
          sposts[i] # Undefined
              => /\ sposts[i][1].of = i
                 /\ NameIn(sposts[i]) \in Names(bucket)
    /\ \A o1, o2 \in bucket : o1.name = o2.name => o1 = o2
    /\ \A p \in DOMAIN rpc :
          /\ rpc[p] = "update" => [name |-> rname[p], by |-> p] \in bucket
          /\ \A k \in 1..Len(rres[p]) :
                rres[p][k] = "generation" => \A o \in bucket :
                    ~(o.by = p /\ o.name.of = rbatch[p][k])

\* C32: an image reference is written only after a successful non-overwriting
\* upload of the object it names, which happens only after a successful
\* generation: every non-null image reference names an object that exists in
\* the bucket, and no step removes or replaces an object.
C32_ReferenceAfterUpload ==
    []ReferencesNameObjects /\ [][\A o \in bucket : o \in bucket']_vars

\* a post is linked to its object, and the upload of another run under the same
\* name was refused
C32_Witness ==
    /\ \E i \in 1..Len(sposts) : sposts[i] # Undefined
    /\ \E p \in DOMAIN rpc :
          /\ rres[p] # <<>> /\ rres[p][Len(rres[p])] = "upload"
          /\ \E o \in bucket : o.name = rname[p] /\ o.by # p

\* C33: in visualizer.js a failure at generation, upload or update for a post
\* of the batch leaves the image_url of that post null and does not stop the
\* run: every later post of the batch is still processed and the run ends
\* normally.
C33_BatchIsolation ==
    vrev = "visualizer.js"
        => /\ vexit # "exit1"
           /\ \A k \in 1..Len(results) :
                 results[k] # "ok" => posts[batch[k]].image_url = Undefined
           /\ VizDone => (Len(results) = Len(batch) /\ vexit = "exit0")

\* a run of visualizer.js is over: its first two posts failed at the update and
\* at the upload, its third post got its image
C33_Witness ==
    /\ VizDone /\ vrev = "visualizer.js" /\ vexit = "exit0"
    /\ results = <<"update", "upload", "ok">>

\* C34: in part_002 a failure at generation, upload or update for a post of
\* the batch ends the process with a non-zero exit code at once: no upload and
\* no update is made for a later post of the batch, and the references written
\* for the earlier posts of the batch are kept.
C34_BatchAbort ==
    vrev = "part_002"
        => \A k \in 1..Len(results) :
              results[k] # "ok"
                  => /\ k = Len(results) /\ bidx = k
                     /\ VizDone /\ vexit = "exit1"
                     /\ \A j \in (k + 1)..Len(batch) :
                           ~UploadedFor(batch[j]) /\ UpdatesFor(batch[j]) = {}
                     /\ \A j \in 1..(k - 1) :
                           posts[batch[j]].image_url = Reference(vrev, batch[j], vrun)

\* a run of part_002 with a batch of three visualized its first post and ended
\* at the failed upload of the second
C34_Witness ==
    /\ VizDone /\ vrev = "part_002" /\ vexit = "exit1"
    /\ Len(batch) = 3
    /\ results = <<"ok", "upload">>

\* the posts of the batch are handled one after another: the posts before the
\* one in work are finished, nothing was uploaded or updated for a later one
OneAfterAnother ==
    /\ Len(results) <= bidx /\ bidx <= Len(batch)
    /\ Len(results) >= bidx - 1
    /\ \A j \in (bidx + 1)..Len(batch) :
          ~UploadedFor(batch[j]) /\ UpdatesFor(batch[j]) = {}

\* C35 as stated: the posts of a batch are processed one after another, and
\* for a batch of n posts exactly n-1 cool-down delays of 5 seconds occur.
C35_ExactlyNMinusOne ==
    /\ OneAfterAnother
    /\ \A k \in 1..Len(cooldowns) : cooldowns[k] = [after |-> k, ms |-> 5000]
    /\ (VizDone /\ batch # <<>>) => Len(cooldowns) = Len(batch) - 1

\* C35: the posts of a batch are processed one after another; in visualizer.js
\* and part_002 one cool-down delay of 5 seconds occurs between the end of a
\* post and the start of the next and none after the last, n-1 delays for a
\* batch of n posts that is processed to its end and i-1 delays when part_002
\* ends the run at a failure of post i.
C35_CooldownBetweenPosts ==
    /\ OneAfterAnother
    /\ \A k \in 1..Len(cooldowns) : cooldowns[k] = [after |-> k, ms |-> 5000]
    /\ bidx >= 1 => Len(cooldowns) = bidx - 1
    /\ bidx = 0 => cooldowns = <<>>
    /\ (VizDone /\ batch # <<>> /\ Len(cooldowns) # Len(batch) - 1)
          => /\ vrev = "part_002" /\ vexit = "exit1"
             /\ results[Len(results)] # "ok"

\* a run of visualizer.js has handled a batch of three, with a failure, and
\* has waited twice
C35_Witness ==
    /\ VizDone /\ vrev = "visualizer.js" /\ Len(batch) = 3
    /\ Len(results) = 3 /\ results[2] = "generation"
    /\ Len(cooldowns) = 2

\* run p has linked post i: the post is in its batch and its update succeeded
Linked(p, i) ==
    \E k \in 1..Len(rres[p]) : rbatch[p][k] = i /\ rres[p][k] = "ok"

\* C36: nothing keeps two overlapping runs from selecting the same post, and an
\* update that succeeds is applied whatever image_url the row holds: the row
\* then names the object of the run that wrote last, and every object stays in
\* the bucket.
C36_LastWriteWins ==
    [][\A p \in DOMAIN rpc :
          (rpc[p] = "update" /\ rres'[p] = Append(rres[p], "ok"))
              => LET i == rbatch[p][ridx[p]]
                 IN  /\ sposts'[i] = Reference(srev, i, rname[p].at)
                     /\ NameIn(sposts'[i]) = rname[p]
                     /\ bucket' = bucket]_vars

\* both runs selected the same post, both uploaded an object for it and both
\* updates were applied: the row names one object, the other is left
\* unreferenced in the bucket
C36_Witness ==
    \E i \in 1..Len(sposts) : \E p, q \in DOMAIN rpc :
        /\ p # q /\ Linked(p, i) /\ Linked(q, i)
        /\ sposts[i] # Undefined
        /\ \E o1, o2 \in bucket :
              /\ o1.by = p /\ o2.by = q
              /\ o1.name.of = i /\ o2.name.of = i
              /\ o1.name # o2.name
              /\ NameIn(sposts[i]) = o2.name
              /\ \A j \in 1..Len(sposts) :
                    sposts[j] # Undefined => NameIn(sposts[j]) # o1.name

\* the rows the run's select saw that are newer than row j and have no image
NewerPending(j) ==
    {i \in 1..selCount :
        posts[i].created_at > posts[j].created_at /\ posts[i].image_url = Undefined}

\* how many newer posts without an image the k-th post of a batch can be handled
\* with: visualizer.js goes on after a failure, part_002 stops at the first
\* one, part_001 selects one post
StarvationBound(r, k) == IF r = "visualizer.js" THEN k ELSE 1

\* C37: a post is handled only while fewer than 3 newer posts (in part_002 and
\* part_001: no newer post) are without an image, so a post behind newer posts
\* that fail on every run is never handled, whatever its own generation would do.
C37_NewestFirstStarvation ==
    \A k \in 1..bidx :
        /\ k <= BatchLimit(vrev)
        /\ Cardinality(NewerPending(batch[k])) < StarvationBound(vrev, k)

\* a second run has ended with every handled post failed again, and an older
\* post without an image was left out of its batch
C37_Witness ==
    /\ vrun = 2 /\ VizDone
    /\ results # <<>>
    /\ \A k \in 1..Len(results) : results[k] # "ok"
    /\ \E j \in 1..selCount :
          /\ posts[j].image_url = Undefined
          /\ \A k \in 1..Len(batch) :
                batch[k] # j /\ posts[batch[k]].created_at > posts[j].created_at
          /\ NewerPending(j) # {}

\* the objects of the bucket made for post i
ObjectsOf(i) == {o \in bucket : o.name.of = i}

\* C38: an update that fails leaves the object it was to link in the bucket and
\* the row as it was, and no step of the pipeline takes an object out of the
\* bucket; a later run then uploads a further object for the same post.
C38_FailedUpdateLeavesObject ==
    [][/\ \A p \in DOMAIN rpc :
            (rpc[p] = "update" /\ rres'[p] = Append(rres[p], "update"))
                => /\ sposts' = sposts
                   /\ bucket' = bucket
                   /\ \E o \in bucket' : o.name = rname[p] /\ o.by = p
       /\ \A i \in 1..Len(sposts) : ObjectsOf(i) \subseteq ObjectsOf(i)']_vars

\* the update of a run failed after its upload, the post is still without an
\* image, and the bucket holds two objects for it under two names
C38_Witness ==
    \E i \in 1..Len(sposts) : \E p \in DOMAIN rpc :
        /\ sposts[i] = Undefined
        /\ \E k \in 1..Len(rres[p]) : rbatch[p][k] = i /\ rres[p][k] = "update"
        /\ \E o1, o2 \in ObjectsOf(i) :
              o1.by = p /\ o2.by # p /\ o1.name # o2.name /\ o2.name.at > o1.name.at
        /\ Cardinality(ObjectsOf(i)) > 1

====
